---- MODULE Spec2Model ----
(***************************************************************************)
(* Verification model of the Dino Dynasty OS runtime core:                 *)
(*   - dino_os/scheduler.py    (Scheduler: job table and tick loop)        *)
(*   - dino_os/message_bus.py  (MessageBus: matching, dispatch, request)   *)
(*   - dino_os/tool_sandbox.py (ToolSandbox: registration and execute;     *)
(*                              FileSandbox: workspace confinement)        *)
(*   - dino_os/agent_core.py   (Agent: lifecycle and tool registry)        *)
(*   - dino_os/llm_provider.py (LLMManager: provider fallback)             *)
(* Times are integers counting clock units since the first instant of the  *)
(* current month; SubSec units make one second, so the sub-second part of  *)
(* a datetime (its microsecond field) is t % SubSec.                       *)
(***************************************************************************)
EXTENDS Integers, Sequences, FiniteSets, TLC

VARIABLES
    clock,      \* datetime.utcnow(), in clock units
    objs,       \* the ScheduledJob objects ever created, by reference (index)
    jobs,       \* Scheduler._jobs: insertion-ordered dict, job id -> reference
    running,    \* Scheduler._running
    task,       \* Scheduler._task: the _run_loop coroutine and its locals
    runs,       \* per ScheduledJob object: how often its func was invoked
    ticks,      \* number of tick iterations that reached asyncio.sleep(1)
    ret,        \* what the last public call returned or raised ("None" otherwise)
    ncalls,     \* number of public calls made so far
    cron_in,    \* input of the cron validation runs: the expression given
    topic_in,   \* input of the matching runs: the message topic
    pattern_in, \* input of the matching runs: the subscription pattern
    delivered,  \* result of the matching runs: how often the subscriber is called
    subs,       \* MessageBus._subscriptions: insertion-ordered dict, pattern -> callbacks
    queue,      \* MessageBus._message_queue
    history,    \* MessageBus._history
    bus,        \* MessageBus._running, _task: the _process_messages coroutine and its locals
    log,        \* the callback invocations made so far, in order
    regs,       \* the subscriptions in force, in the order of their subscribe() calls
    dispatched, \* the ids of the messages whose _dispatch returned, in order
    futs,       \* per correlation id: the future of the request() that made it
    req,        \* the caller of request(): its position and locals
    nmsg,       \* number of Message objects created so far
    hist_ret,   \* what the last call of get_history returned
    tools,      \* ToolSandbox._tools: dict, tool name -> info
    spawned,    \* number of processes spawned by the sandbox so far
    tool_ret,   \* what the last call of execute / execute_python returned or raised
    restrict_to_workspace, \* ToolSandbox.restrict_to_workspace
    fs_in,      \* input of the FileSandbox runs: the path given
    restrict_enabled, \* FileSandbox.restrict_enabled
    file_ret,   \* what the last FileSandbox operation did with the path
    a_running,  \* Agent._running
    a_tasks,    \* the background tasks the agent ever launched, by reference (index)
    a_task,     \* Agent._task: reference of the task launched last
    a_stop,     \* the caller of Agent.stop(): its position and the task it awaits
    a_tools,    \* Agent._tools: dict, tool name -> func
    a_ret,      \* what the last call of the agent's public methods returned or raised
    llm_configs, \* the provider_configs given to LLMManager
    providers,  \* LLMManager.providers
    llm_ret     \* what the last call of LLMManager.generate did

vars == << clock, objs, jobs, running, task, runs, ticks, ret, ncalls,
           cron_in, topic_in, pattern_in, delivered,
           subs, queue, history, bus, log, regs, dispatched, futs, req, nmsg,
           hist_ret, tools, spawned, tool_ret, restrict_to_workspace,
           fs_in, restrict_enabled, file_ret,
           a_running, a_tasks, a_task, a_stop, a_tools, a_ret,
           llm_configs, providers, llm_ret >>

schedVars == << clock, objs, jobs, running, task, runs, ticks, ret, ncalls >>
matchVars == << topic_in, pattern_in, delivered >>
busVars == << subs, queue, history, bus, log, regs, dispatched, futs, req, nmsg,
             hist_ret >>
boxVars == << tools, spawned, tool_ret, restrict_to_workspace >>
fileVars == << fs_in, restrict_enabled, file_ret >>
agentVars == << a_running, a_tasks, a_task, a_stop, a_tools, a_ret >>
llmVars == << llm_configs, providers, llm_ret >>
restVars == << fileVars, agentVars, llmVars >>

-----------------------------------------------------------------------------
(* Bounds of the model *)

\* clock units per second (resolution of the microsecond field)
SubSec == 2
\* length of the observed time window, in clock units
MaxClock == 3
\* number of ScheduledJob objects created in one run
MaxObjs == 3
\* number of completed ticks in one run
MaxTicks == 2
\* number of public calls in one run
MaxCalls == 3
\* length of the cron expressions given to the validation runs
MaxCronLen == 9
\* length of the topics and of the patterns given to the matching runs
MaxTopicLen == 5
MaxPatLen == 3

-----------------------------------------------------------------------------
(* datetime *)

\* number of days of the current month: datetime.replace(day=d) raises
\* ValueError for d outside 1..DaysInMonth
DaysInMonth == 31

NoTime == -1    \* None
\* value of delivered while no message has been dispatched
Undelivered == -1

MkTime(day, hour, minute, second, sub) ==
    ((((day - 1) * 24 + hour) * 60 + minute) * 60 + second) * SubSec + sub

Sub(t) == t % SubSec
Minute(t) == (t \div (SubSec * 60)) % 60
Hour(t) == (t \div (SubSec * 3600)) % 24
Day(t) == (t \div (SubSec * 86400)) + 1

\* now.replace(microsecond=0)
TruncSecond(t) == t - Sub(t)

\* the instants at which an observed run may begin
StartTimes == { MkTime(1, 23, 58, 59, SubSec - 1),
                MkTime(DaysInMonth, 23, 58, 59, SubSec - 1) }

InWindow(t) == \E s \in StartTimes : s <= t /\ t <= s + MaxClock

-----------------------------------------------------------------------------
(* Sequences of characters *)

RECURSIVE SeqsUpTo(_, _)
SeqsUpTo(S, n) ==
    IF n = 0 THEN { << >> }
    ELSE SeqsUpTo(S, n - 1) \cup [1..n -> S]

Digits == << "0", "1", "2", "3", "4", "5", "6", "7", "8", "9" >>

\* str(n) for an int n >= 0
RECURSIVE Str(_)
Str(n) ==
    IF n < 10 THEN << Digits[n + 1] >>
    ELSE Str(n \div 10) \o << Digits[(n % 10) + 1] >>

DigitValue(c) == CHOOSE d \in 0..9 : Digits[d + 1] = c

\* int(s) for a string of decimal digits
RECURSIVE IntOf(_)
IntOf(s) ==
    IF Len(s) = 0 THEN 0
    ELSE 10 * IntOf(SubSeq(s, 1, Len(s) - 1)) + DigitValue(s[Len(s)])

-----------------------------------------------------------------------------
(* Scheduler.CRON_PATTERN *)

DigitChars == { Digits[i] : i \in 1..10 }
\* the character class [0-9,/-]
FieldChars == DigitChars \cup { ",", "/", "-" }
\* the characters \s matches
Whitespace == { " ", "\t", "\n", "\r" }

\* end (exclusive) of the longest run of characters of class C starting at p
RECURSIVE RunEnd(_, _, _)
RunEnd(s, p, C) ==
    IF p <= Len(s) /\ s[p] \in C THEN RunEnd(s, p + 1, C) ELSE p

\* FieldEnd with a field class that takes every character but whitespace
FieldEnd_AnyChar(s, p) ==
    IF p > Len(s) THEN 0
    ELSE IF s[p] \notin Whitespace
         THEN RunEnd(s, p, { s[i] : i \in 1..Len(s) } \ Whitespace)
    ELSE 0

\* (\*|[0-9,/-]+) matched at p: the position after it, or 0 when it fails
FieldEnd(s, p) ==
    IF p > Len(s) THEN 0
    ELSE IF s[p] = "*" THEN p + 1
    ELSE IF s[p] \in FieldChars THEN RunEnd(s, p, FieldChars)
    ELSE 0

\* \s+ matched at p: the position after it, or 0 when it fails
SpaceEnd(s, p) ==
    IF p <= Len(s) /\ s[p] \in Whitespace THEN RunEnd(s, p, Whitespace) ELSE 0

\* $ at p: the end of the string, or just before a newline that ends it
AtDollar(s, p) ==
    \/ p = Len(s) + 1
    \/ p = Len(s) /\ s[p] = "\n"

\* the rest of the pattern from position p on, with k fields still to match
RECURSIVE CronRest(_, _, _)
CronRest(s, p, k) ==
    LET e == FieldEnd(s, p) IN
    IF e = 0 THEN FALSE
    ELSE IF k = 1 THEN AtDollar(s, e)
    ELSE LET w == SpaceEnd(s, e) IN
         IF w = 0 THEN FALSE ELSE CronRest(s, w, k - 1)

\* CRON_PATTERN.match(cron_expr)
CRON_PATTERN(cron_expr) == CronRest(cron_expr, 1, 5)

-----------------------------------------------------------------------------
(* str.split() *)

\* the whitespace-separated fields of s that start at position p or later
RECURSIVE SplitFrom(_, _)
SplitFrom(s, p) ==
    LET b == RunEnd(s, p, Whitespace) IN
    IF b > Len(s) THEN << >>
    ELSE LET e == RunEnd(s, b, { s[i] : i \in 1..Len(s) } \ Whitespace) IN
         << SubSeq(s, b, e - 1) >> \o SplitFrom(s, e)

Split(s) == SplitFrom(s, 1)

-----------------------------------------------------------------------------
(* Scheduler._jobs, a dict: keys keep the order of their first insertion *)

DictHas(d, k) == \E n \in 1..Len(d) : d[n].k = k
DictGet(d, k) == d[CHOOSE n \in 1..Len(d) : d[n].k = k].v
\* d[k] = v moving a key already present to the end
DictSet_MoveToEnd(d, k, v) ==
    Append(SelectSeq(d, LAMBDA e : e.k # k), [k |-> k, v |-> v])

\* d[k] = v: a key already present keeps its position
DictSet(d, k, v) ==
    IF DictHas(d, k)
    THEN [n \in 1..Len(d) |-> IF d[n].k = k THEN [k |-> k, v |-> v] ELSE d[n]]
    ELSE Append(d, [k |-> k, v |-> v])
DictPop(d, k) == SelectSeq(d, LAMBDA e : e.k # k)

-----------------------------------------------------------------------------
(* Inputs of the public calls *)

JobIds == { "j1", "j2" }
\* job.func: a plain function or a coroutine function
Funcs == { "sync", "coro" }
Seconds == { 1, 10 }
\* run_at of a one-shot job, relative to the time of the call
RunAtOffsets == { -1, SubSec }
\* the values callers assign to job.enabled (it is True from construction)
Flags == BOOLEAN
\* "* * * * *" and an expression of four fields
CronInputs == { << "*", " ", "*", " ", "*", " ", "*", " ", "*" >>,
                << "*", " ", "*", " ", "*", " ", "*" >> }

\* datetime.isoformat(): the fields of the datetime, in order
IsoFormat(t) == << Day(t), Hour(t), Minute(t), (t \div SubSec) % 60, Sub(t) >>

ValueError == -2

-----------------------------------------------------------------------------
(* Scheduler._get_next_cron_time *)

_get_next_cron_time(cron_expr) ==
    LET now == clock
        parts == Split(cron_expr)
        minute1 == Minute(now) + 1
        next_minute == IF minute1 >= 60 THEN 0 ELSE minute1
        hour1 == IF minute1 >= 60 THEN Hour(now) + 1 ELSE Hour(now)
        next_hour == IF hour1 >= 24 THEN 0 ELSE hour1
        next_day == IF hour1 >= 24 THEN Day(now) + 1 ELSE Day(now)
    IN  IF Len(parts) # 5 THEN now
        ELSE IF next_day > DaysInMonth THEN ValueError
        ELSE MkTime(next_day, next_hour, next_minute, 0, 0)

-----------------------------------------------------------------------------
(* MessageBus and ToolSandbox after construction *)

\* Message.correlation_id = None
NoCid == 0

\* no Message object
NoMsg == [id |-> 0, topic |-> << >>, priority |-> "NORMAL", correlation_id |-> NoCid]

\* MessageBus._running = False, _task = None
NoBus == [running |-> FALSE, pc |-> "none", msg |-> NoMsg, callbacks |-> << >>, i |-> 0]

\* nobody is inside request()
NoReq == [pc |-> "none", cid |-> NoCid, before |-> 0, result |-> NoMsg]

\* get_history was not the last call
NoHistRet == [called |-> FALSE, topic |-> << >>, limit |-> 0, result |-> << >>]

\* MessageBus.__init__
BusInit ==
    /\ subs = << >>
    /\ queue = << >>
    /\ history = << >>
    /\ bus = NoBus
    /\ log = << >>
    /\ regs = << >>
    /\ dispatched = << >>
    /\ futs = << >>
    /\ req = NoReq
    /\ nmsg = 0
    /\ hist_ret = NoHistRet

\* neither execute nor execute_python was called yet
NoToolRet == [kind |-> "None", success |-> FALSE, stderr |-> "", return_code |-> 0]

\* ToolSandbox.__init__
BoxInit ==
    /\ tools = << >>
    /\ spawned = 0
    /\ tool_ret = NoToolRet
    /\ restrict_to_workspace = TRUE

-----------------------------------------------------------------------------
(* FileSandbox, Agent and LLMManager after construction *)

\* no FileSandbox operation was called yet
NoFileRet == [op |-> "none", ret |-> "None", accepted |-> FALSE, restricted |-> FALSE]

\* FileSandbox.__init__
FileInit ==
    /\ fs_in = [abs |-> TRUE, segs |-> << >>]
    /\ restrict_enabled = TRUE
    /\ file_ret = NoFileRet

\* Agent._task = None
NoAgentTask == 0

\* nobody is inside Agent.stop()
NoStop == [pc |-> "none", target |-> NoAgentTask, launched |-> 0]

\* no public method of the agent was called yet
NoAgentRet == [call |-> "none", name |-> "", result |-> "None", invoked |-> "None"]

\* Agent.__init__
AgentInit ==
    /\ a_running = FALSE
    /\ a_tasks = << >>
    /\ a_task = NoAgentTask
    /\ a_stop = NoStop
    /\ a_tools = << >>
    /\ a_ret = NoAgentRet

\* LLMManager.generate was not called yet
NoLlmRet == [called |-> FALSE, result |-> "None", from |-> 0, calls |-> << >>, outs |-> << >>]

\* no LLMManager was made
LlmInit ==
    /\ llm_configs = << >>
    /\ providers = << >>
    /\ llm_ret = NoLlmRet

RestInit == FileInit /\ AgentInit /\ LlmInit

-----------------------------------------------------------------------------
(* Scheduler: public calls *)

NoTask == [pc |-> "none", now |-> NoTime, items |-> << >>, i |-> 0,
           wake |-> NoTime, hits |-> << >>]

\* a public call returns (or raises) r
Returns(r) ==
    /\ ncalls < MaxCalls
    /\ ncalls' = ncalls + 1
    /\ ret' = r

\* a step of the loop or of the clock: no public call returns
NoReturn ==
    /\ ret' = "None"
    /\ ncalls' = ncalls

\* ScheduledJob(...); the field early is not a field of the program: it
\* records that the job was registered before the loop was ever started and
\* has not been disabled since
NewJob(id, type, schedule, func, next_run) ==
    [id |-> id, schedule_type |-> type, schedule |-> schedule, func |-> func,
     next_run |-> next_run, enabled |-> TRUE, early |-> task.pc = "none"]

\* self._jobs[job_id] = job, for a job object just constructed
Register(job) ==
    /\ ncalls < MaxCalls
    /\ Len(objs) < MaxObjs
    /\ objs' = Append(objs, job)
    /\ runs' = Append(runs, 0)
    /\ jobs' = DictSet(jobs, job.id, Len(objs) + 1)

add_cron_job(job_id, cron_expr, func) ==
    /\ ncalls < MaxCalls
    /\ IF ~CRON_PATTERN(cron_expr)
       THEN /\ Returns("False")
            /\ UNCHANGED << objs, runs, jobs >>
       ELSE LET next_run == _get_next_cron_time(cron_expr) IN
            IF next_run = ValueError
            THEN /\ Returns("ValueError")
                 /\ UNCHANGED << objs, runs, jobs >>
            ELSE /\ Register(NewJob(job_id, "cron", cron_expr, func, next_run))
                 /\ Returns("True")
    /\ UNCHANGED << clock, running, task, ticks, cron_in, matchVars, busVars, boxVars, restVars >>

add_interval_job(job_id, seconds, func) ==
    /\ Register(NewJob(job_id, "interval", Str(seconds), func, clock))
    /\ Returns("None")
    /\ UNCHANGED << clock, running, task, ticks, cron_in, matchVars, busVars, boxVars, restVars >>

add_one_shot_job(job_id, run_at, func) ==
    /\ Register(NewJob(job_id, "once", IsoFormat(run_at), func, run_at))
    /\ Returns("None")
    /\ UNCHANGED << clock, running, task, ticks, cron_in, matchVars, busVars, boxVars, restVars >>

remove_job(job_id) ==
    /\ jobs' = DictPop(jobs, job_id)
    /\ Returns(IF DictHas(jobs, job_id) THEN "True" ELSE "False")
    /\ UNCHANGED << clock, objs, runs, running, task, ticks, cron_in, matchVars, busVars, boxVars, restVars >>

\* get_job(job_id).enabled = flag
set_enabled(job_id, flag) ==
    /\ DictHas(jobs, job_id)
    /\ objs' = [objs EXCEPT ![DictGet(jobs, job_id)].enabled = flag,
                            ![DictGet(jobs, job_id)].early = @ /\ flag]
    /\ Returns("None")
    /\ UNCHANGED << clock, jobs, runs, running, task, ticks, cron_in, matchVars, busVars, boxVars, restVars >>

\* the reference to the job now registered under the id of the entry
CurrentRef_ByTable ==
    IF DictHas(jobs, task.items[task.i].k)
    THEN DictGet(jobs, task.items[task.i].k)
    ELSE task.items[task.i].v

\* the job whose func the loop is executing, and the reference to it
CurrentRef == task.items[task.i].v
Current == objs[CurrentRef]

\* the loop is suspended at an await (or not yet scheduled), so that other
\* coroutines run and a cancellation can be delivered to it
TaskSuspended ==
    \/ task.pc \in { "ready", "sleep" }
    \/ task.pc = "call" /\ Current.func = "coro"

start ==
    /\ ~running
    /\ running' = TRUE
    /\ task' = [NoTask EXCEPT !.pc = "ready"]
    /\ Returns("None")
    /\ UNCHANGED << clock, objs, jobs, runs, ticks, cron_in, matchVars, busVars, boxVars, restVars >>

stop ==
    /\ task.pc = "call" => Current.func = "coro"
    /\ running' = FALSE
    /\ task' = IF TaskSuspended THEN [NoTask EXCEPT !.pc = "cancelled"] ELSE task
    /\ Returns(IF task.pc = "failed" THEN "ValueError" ELSE "None")
    /\ UNCHANGED << clock, objs, jobs, runs, ticks, cron_in, matchVars, busVars, boxVars, restVars >>

-----------------------------------------------------------------------------
(* Scheduler._run_loop *)

\* Due with "now > job.next_run" for "now >= job.next_run"
Due_Strict(job, now) ==
    /\ job.enabled
    /\ job.next_run # NoTime
    /\ now > job.next_run

\* "if not job.enabled: continue" and "if job.next_run and now >= job.next_run"
Due(job, now) ==
    /\ job.enabled
    /\ job.next_run # NoTime
    /\ now >= job.next_run

\* the entries of the snapshot after position i whose job the loop runs
DueAfter(items, i, now, os) ==
    { j \in (i + 1)..Len(items) : Due(os[items[j].v], now) }

Min(S) == CHOOSE x \in S : \A y \in S : x <= y

\* The for loop from the entry after position i on, up to the next await:
\* either the func of the next due job is called, or the loop is over and
\* the task sleeps for one second.
Scan(t, i, os) ==
    LET due == DueAfter(t.items, i, t.now, os) IN
    IF due # { }
    THEN LET j == Min(due) IN
         /\ task' = [t EXCEPT !.pc = "call", !.i = j, !.hits[j] = 1]
         /\ runs' = [runs EXCEPT ![t.items[j].v] = @ + 1]
         /\ ticks' = ticks
    ELSE /\ task' = [t EXCEPT !.pc = "sleep", !.i = Len(t.items) + 1,
                              !.wake = clock + SubSec]
         /\ runs' = runs
         /\ ticks' = ticks + 1

\* One pass of "while self._running": now is read and the job table is
\* copied, then the for loop runs up to its first await.
TickBegin ==
    /\ \/ task.pc = "ready"
       \/ task.pc = "sleep" /\ clock >= task.wake
    /\ ticks < MaxTicks
    /\ IF ~running
       THEN /\ task' = [NoTask EXCEPT !.pc = "done"]
            /\ UNCHANGED << runs, ticks >>
       ELSE Scan([task EXCEPT !.now = clock, !.items = jobs,
                              !.hits = [n \in 1..Len(jobs) |-> 0]], 0, objs)
    /\ NoReturn
    /\ UNCHANGED << clock, objs, jobs, running, cron_in, matchVars, busVars, boxVars, restVars >>

\* job.func returns, or raises an Exception
Outcomes == { "ok", "raise" }

\* next_run of an interval job after it ran
IntervalNextRun(job, now) ==
    LET interval == IntOf(job.schedule) IN
    TruncSecond(now)

\* The func of the current job returns or raises; an exception is caught
\* and printed. Then the next run is scheduled and the for loop goes on.
JobReturns(outcome) ==
    /\ task.pc = "call"
    /\ LET job == Current
           ref == CurrentRef
       IN  CASE job.schedule_type = "interval" ->
                  /\ objs' = [objs EXCEPT
                                ![ref].next_run = IntervalNextRun(job, task.now)]
                  /\ jobs' = jobs
                  /\ Scan(task, task.i, objs')
             [] job.schedule_type = "once" ->
                  /\ jobs' = DictPop(jobs, job.id)
                  /\ objs' = objs
                  /\ Scan(task, task.i, objs')
             [] job.schedule_type = "cron" ->
                  LET next_run == _get_next_cron_time(job.schedule) IN
                  IF next_run = ValueError
                  THEN /\ task' = [NoTask EXCEPT !.pc = "failed"]
                       /\ UNCHANGED << objs, jobs, runs, ticks >>
                  ELSE /\ objs' = [objs EXCEPT ![ref].next_run = next_run]
                       /\ jobs' = jobs
                       /\ Scan(task, task.i, objs')
    /\ outcome \in Outcomes
    /\ NoReturn
    /\ UNCHANGED << clock, running, cron_in, matchVars, busVars, boxVars, restVars >>

\* time passes
Advance ==
    /\ InWindow(clock + 1)
    /\ clock' = clock + 1
    /\ NoReturn
    /\ UNCHANGED << objs, jobs, running, task, runs, ticks, cron_in, matchVars, busVars, boxVars, restVars >>

-----------------------------------------------------------------------------
(* The scheduler as a whole *)

Init ==
    /\ clock \in StartTimes
    /\ objs = << >>
    /\ jobs = << >>
    /\ running = FALSE
    /\ task = NoTask
    /\ runs = << >>
    /\ ticks = 0
    /\ ret = "None"
    /\ ncalls = 0
    /\ cron_in = << >>
    /\ topic_in = << >>
    /\ pattern_in = << >>
    /\ delivered = Undelivered
    /\ BusInit
    /\ BoxInit
    /\ RestInit

Next ==
    \/ \E id \in JobIds, e \in CronInputs, f \in Funcs : add_cron_job(id, e, f)
    \/ \E id \in JobIds, s \in Seconds, f \in Funcs : add_interval_job(id, s, f)
    \/ \E id \in JobIds, d \in RunAtOffsets, f \in Funcs :
          add_one_shot_job(id, clock + d, f)
    \/ \E id \in JobIds : remove_job(id)
    \/ \E id \in JobIds, b \in Flags : set_enabled(id, b)
    \/ start
    \/ stop
    \/ TickBegin
    \/ \E outcome \in Outcomes : JobReturns(outcome)
    \/ Advance

Spec == Init /\ [][Next]_vars

-----------------------------------------------------------------------------
(* add_cron_job on every expression over the characters CronChars *)

\* one character of each kind CRON_PATTERN tells apart: the star, a character
\* of the class [0-9,/-], a whitespace character, and any other character
CronChars == { "*", "1", " ", "a" }

InitCron ==
    /\ clock = Min(StartTimes)
    /\ objs = << >>
    /\ jobs = << >>
    /\ running = FALSE
    /\ task = NoTask
    /\ runs = << >>
    /\ ticks = 0
    /\ ret = "None"
    /\ ncalls = 0
    /\ cron_in \in SeqsUpTo(CronChars, MaxCronLen)
    /\ topic_in = << >>
    /\ pattern_in = << >>
    /\ delivered = Undelivered
    /\ BusInit
    /\ BoxInit
    /\ RestInit

\* at most one job is registered under the id before the expression is given
NextCron ==
    \/ ncalls = 0 /\ add_interval_job("j1", 1, "sync")
    \/ ncalls <= 1 /\ add_cron_job("j1", cron_in, "sync")

SpecCron == InitCron /\ [][NextCron]_vars

-----------------------------------------------------------------------------
(* MessageBus: matching a topic against a subscription pattern *)

\* str.split('.'): the segments between the dots, empty ones included
RECURSIVE SplitDots(_)
SplitDots(s) ==
    LET e == RunEnd(s, 1, { s[i] : i \in 1..Len(s) } \ { "." }) IN
    IF e > Len(s) THEN << s >>
    ELSE << SubSeq(s, 1, e - 1) >> \o SplitDots(SubSeq(s, e + 1, Len(s)))

\* c in s
HasChar(s, c) == \E i \in 1..Len(s) : s[i] = c

\* the for loop of _match_pattern over zip(topic_parts, pattern_parts),
\* from position i on
RECURSIVE MatchLoop(_, _, _)
MatchLoop(topic_parts, pattern_parts, i) ==
    IF i > Len(topic_parts) \/ i > Len(pattern_parts) THEN TRUE
    ELSE IF pattern_parts[i] = << "#" >> THEN TRUE
    ELSE IF pattern_parts[i] # << "*" >> /\ pattern_parts[i] # topic_parts[i]
         THEN FALSE
    ELSE MatchLoop(topic_parts, pattern_parts, i + 1)

\* _match_pattern without the comparison of the two lengths
_match_pattern_NoLen(topic_parts, pattern_parts) ==
    MatchLoop(topic_parts, pattern_parts, 1)

_match_pattern(topic_parts, pattern_parts) ==
    IF Len(topic_parts) # Len(pattern_parts) THEN FALSE
    ELSE MatchLoop(topic_parts, pattern_parts, 1)

\* _dispatch, for one subscription: how many times the callbacks subscribed
\* under pattern are put on the list of callbacks of a message on topic
Matches(topic, pattern) ==
    LET exact == IF topic = pattern THEN 1 ELSE 0
        wild  == IF /\ HasChar(pattern, "*") \/ HasChar(pattern, "#")
                    /\ _match_pattern(SplitDots(topic), SplitDots(pattern))
                 THEN 1 ELSE 0
    IN  exact + wild

\* a message on topic_in is dispatched while pattern_in is subscribed
Dispatch ==
    /\ delivered = Undelivered
    /\ delivered' = Matches(topic_in, pattern_in)
    /\ UNCHANGED << schedVars, cron_in, topic_in, pattern_in, busVars, boxVars, restVars >>

\* the characters of topics and patterns: a letter, the separator and the
\* two wildcard characters
TopicChars == { "a", ".", "*", "#" }

InitMatch ==
    /\ clock = Min(StartTimes)
    /\ objs = << >>
    /\ jobs = << >>
    /\ running = FALSE
    /\ task = NoTask
    /\ runs = << >>
    /\ ticks = 0
    /\ ret = "None"
    /\ ncalls = 0
    /\ cron_in = << >>
    /\ topic_in \in SeqsUpTo(TopicChars, MaxTopicLen)
    /\ pattern_in \in SeqsUpTo(TopicChars, MaxPatLen)
    /\ delivered = Undelivered
    /\ BusInit
    /\ BoxInit
    /\ RestInit

NextMatch == Dispatch

SpecMatch == InitMatch /\ [][NextMatch]_vars

-----------------------------------------------------------------------------
(* Claims about add_cron_job *)

Chars(s) == { s[i] : i \in 1..Len(s) }

\* exactly five whitespace-separated fields, each either a star or built
\* only from digits, commas, "-" and "/"
FiveCronFields(e) ==
    LET f == Split(e) IN
    /\ Len(f) = 5
    /\ \A i \in 1..Len(f) : f[i] = << "*" >> \/ Chars(f[i]) \subseteq FieldChars

\* C1: add_cron_job with an expression that is not exactly five
\* whitespace-separated fields, each "*" or built only from digits, commas,
\* "-" and "/", returns false and leaves the job table as it was: no job is
\* created and a job already registered under the id is not altered.
\* (add_cron_job is the one call that returns True or False or raises here.)
C1_MalformedCronRejected ==
    [][ ( /\ ncalls' = ncalls + 1
          /\ ret' \in { "True", "False", "ValueError" }
          /\ ~FiveCronFields(cron_in) )
           => (ret' = "False" /\ jobs' = jobs /\ objs' = objs) ]_vars

\* C1 witness: an expression of five fields, one of them with a character
\* outside the class, was given for an id that holds a job, and refused
C1_Witness ==
    /\ Len(Split(cron_in)) = 5
    /\ ~FiveCronFields(cron_in)
    /\ ret = "False"
    /\ DictHas(jobs, "j1")
    /\ objs[DictGet(jobs, "j1")].schedule_type = "interval"

-----------------------------------------------------------------------------
(* Claims about topic matching *)

\* the pattern has k >= 0 segments that are not "#", followed by one "#"
HashTail(pp) ==
    /\ pp[Len(pp)] = << "#" >>
    /\ \A i \in 1..(Len(pp) - 1) : pp[i] # << "#" >>

\* segment i of the pattern is "*" or equals segment i of the topic
SegmentFits(tp, pp, i) == pp[i] = << "*" >> \/ pp[i] = tp[i]

\* C9: a pattern whose segments are literals or "*" matches a topic iff both
\* have the same number of dot-separated segments and every pattern segment
\* other than "*" equals the topic segment at its position.
C9_StarMatchesOneSegment ==
    LET tp == SplitDots(topic_in)
        pp == SplitDots(pattern_in)
    IN  (delivered # Undelivered /\ \A i \in 1..Len(pp) : pp[i] # << "#" >>)
           => ( delivered > 0
                  <=> /\ Len(tp) = Len(pp)
                      /\ \A i \in 1..Len(pp) : SegmentFits(tp, pp, i) )

\* C9 witness: "a.*" was matched against a topic of three segments ("a.a.a",
\* as agent.* against agent.coder.sub) and the subscriber was not called
C9_Witness ==
    /\ pattern_in = << "a", ".", "*" >>
    /\ topic_in = << "a", ".", "a", ".", "a" >>
    /\ delivered = 0

\* C10: a pattern p1.....pk.# matches every topic whose first k segments
\* match p1..pk and that has at least one further segment, however many
\* segments remain.
C10_HashMatchesRemainder ==
    LET tp == SplitDots(topic_in)
        pp == SplitDots(pattern_in)
        k  == Len(pp) - 1
    IN  ( /\ delivered # Undelivered
          /\ HashTail(pp)
          /\ k >= 1
          /\ Len(tp) >= k + 1
          /\ \A i \in 1..k : SegmentFits(tp, pp, i) )
           => delivered > 0

-----------------------------------------------------------------------------
(* Claims about the tick loop *)

\* the func of the current job returns or raises in this step
Returning == \E outcome \in Outcomes : JobReturns(outcome)

\* job object r is the value of some key of the job table d
InTable(d, r) == \E n \in 1..Len(d) : d[n].v = r

\* the loop is inside the func of job object r
Executing(r) == task.pc = "call" /\ CurrentRef = r

\* C2: when a tick with snapshot time t fires an interval job, the next-due
\* of the job after that tick is strictly greater than t.
C2_IntervalNextDueAfterNow ==
    [][ (Returning /\ Current.schedule_type = "interval")
           => objs'[CurrentRef].next_run > task.now ]_vars

\* C3: after an interval job with interval s is fired in a tick whose
\* snapshot time is now, its next-due is now + s truncated to whole seconds.
C3_IntervalNextDueIsNowPlusInterval ==
    [][ (Returning /\ Current.schedule_type = "interval")
           => objs'[CurrentRef].next_run
                = TruncSecond(task.now + IntOf(Current.schedule) * SubSec) ]_vars

\* C4: when the func of a job raises during a tick, (a) the for loop goes on
\* to the next due enabled job of the snapshot, (b) the loop keeps running,
\* and (c) an interval or cron job stays in the job table, with a next-due
\* computed anew; the error removes no job.
C4_FailureIsolation ==
    [][ JobReturns("raise")
           => /\ task'.pc \in { "call", "sleep" }
              /\ LET due == DueAfter(task.items, task.i, task.now, objs') IN
                 due # { } => (task'.pc = "call" /\ task'.i = Min(due))
              /\ Current.schedule_type \in { "interval", "cron" }
                    => /\ jobs' = jobs
                       /\ objs'[CurrentRef].next_run # NoTime ]_vars

\* C5: when remove_job(id) was called while the func of job id was being
\* executed, then for every kind of job the loop does not fail when the func
\* returns and the job is not put back into the job table; a tick starts
\* from the job table as it is then, so no later tick finds the job.
C5_RemoveDuringExecution ==
    [][ /\ (Returning /\ ~DictHas(jobs, Current.id))
           => (task'.pc \in { "call", "sleep" } /\ ~DictHas(jobs', Current.id))
        /\ TickBegin => task'.items \in { << >>, jobs } ]_vars

\* C6: a one-shot job is invoked at most once over the whole run and not
\* before its run-at time, and once it has fired (its func is no longer being
\* executed) it is absent from the job table.
C6_OneShotFiresOnce ==
    \A r \in 1..Len(objs) :
        objs[r].schedule_type = "once"
           => /\ runs[r] <= 1
              /\ Executing(r) => task.now >= objs[r].next_run
              /\ (runs[r] >= 1 /\ ~Executing(r)) => ~InTable(jobs, r)

\* the job is enabled and has a next-due that is not after now
Eligible(job, now) ==
    job.enabled /\ job.next_run # NoTime /\ job.next_run <= now

\* C7: a tick works on the job table as it is when the tick starts. Each job
\* of it that is enabled and has next-due <= now when the loop reaches it is
\* invoked exactly once in the tick, and no other job is invoked; funcs are
\* invoked by the loop only. Consequently an interval job with interval 1
\* that was registered before the loop was started (and is still registered
\* and was never disabled) has been invoked at least k times after k ticks.
C7_StepSelectsDueJobs ==
    LET i0  == IF task.pc = "call" THEN task.i ELSE 0
        top == IF task'.pc = "call" THEN task'.i - 1 ELSE Len(task'.items)
    IN  IF (TickBegin \/ Returning) /\ task'.pc \in { "call", "sleep" }
        THEN /\ task.pc # "call" => (task'.items = jobs /\ task'.now = clock)
             /\ task.pc = "call"
                   => (task'.items = task.items /\ task'.now = task.now)
             /\ \A k \in 1..Len(task'.items) :
                  LET r == task'.items[k].v IN
                  /\ (task.pc = "call" /\ k <= i0)
                        => task'.hits[k] = task.hits[k]
                  /\ (i0 < k /\ k <= top)
                        => /\ task'.hits[k] = 0
                           /\ ~Eligible(objs'[r], task'.now)
                  /\ (task'.pc = "call" /\ k = task'.i)
                        => /\ task'.hits[k] = 1
                           /\ Eligible(objs'[r], task'.now)
                           /\ runs'[r] = runs[r] + 1
                  /\ (task'.pc = "call" /\ k > task'.i)
                        => task'.hits[k] = 0
             /\ \A r \in 1..Len(runs) :
                  (task'.pc = "call" => r # task'.items[task'.i].v)
                     => runs'[r] = runs[r]
        ELSE \A r \in 1..Len(runs) : runs'[r] = runs[r]

C7_IntervalOneEveryTick ==
    \A r \in 1..Len(objs) :
        ( /\ objs[r].schedule_type = "interval"
          /\ objs[r].schedule = << "1" >>
          /\ objs[r].early
          /\ InTable(jobs, r) )
           => runs[r] >= ticks

Registering(id) ==
    \/ \E e \in CronInputs, f \in Funcs : add_cron_job(id, e, f)
    \/ \E s \in Seconds, f \in Funcs : add_interval_job(id, s, f)
    \/ \E d \in RunAtOffsets, f \in Funcs : add_one_shot_job(id, clock + d, f)

\* C8: a call of add_cron_job, add_interval_job or add_one_shot_job with an
\* id that is in the job table fails explicitly (it returns false or raises)
\* and leaves the job under that id as it was.
C8_DuplicateIdRejected ==
    [][ \A id \in JobIds :
          (Registering(id) /\ DictHas(jobs, id))
             => /\ ret' \in { "False", "ValueError" }
                /\ jobs' = jobs
                /\ objs' = objs ]_vars

-----------------------------------------------------------------------------
(* MessageBus (dino_os/message_bus.py): subscriptions, queue and dispatch *)

\* number of Message objects created in one run
MaxMsgs == 3
\* number of subscriptions made by subscribe() calls from outside the bus
MaxSubs == 2
\* number of request() calls in one run
MaxReqs == 1
\* MessageBus._max_history, scaled down
MaxHistory == 2
\* largest limit given to get_history
MaxLimit == 2

\* topics published and patterns subscribed by the agents
BusTopics == { << "a", ".", "b" >>, << "a", ".", "*" >> }

\* f"response.{correlation_id}" ("r" for "response")
ResponseTopic(correlation_id) == << "r", "." >> \o Str(correlation_id)

Priorities == { "LOW", "URGENT" }

\* the callbacks of the agents: "responder" is a plain function that answers
\* a request, "bad" a plain function that raises, "slow" a coroutine function
Callback(f) == [f |-> f, c |-> NoCid]
UserCallbacks == { Callback("responder"), Callback("bad"), Callback("slow") }

\* the closure response_handler made by the request() with this correlation id
response_handler(correlation_id) == [f |-> "response_handler", c |-> correlation_id]

\* a future: pending, done with a result, or cancelled
Future(state, result) == [state |-> state, result |-> result]

RECURSIVE TotalSubs(_)
TotalSubs(d) ==
    IF d = << >> THEN 0 ELSE Len(Head(d).v) + TotalSubs(Tail(d))

RECURSIVE UserSubs(_)
UserSubs(d) ==
    IF d = << >> THEN 0
    ELSE Len(SelectSeq(Head(d).v, LAMBDA cb : cb.f # "response_handler"))
         + UserSubs(Tail(d))

\* list.remove(x): removes the first occurrence
RECURSIVE Remove(_, _)
Remove(l, x) ==
    IF l = << >> THEN << >>
    ELSE IF Head(l) = x THEN Tail(l)
    ELSE << Head(l) >> \o Remove(Tail(l), x)

InList(l, x) == \E n \in 1..Len(l) : l[n] = x

Subscribe(d, topic, callback) ==
    LET d1 == IF DictHas(d, topic) THEN d ELSE DictSet(d, topic, << >>)
    IN  DictSet(d1, topic, Append(DictGet(d1, topic), callback))

Unsubscribe(d, topic, callback) ==
    IF DictHas(d, topic) /\ InList(DictGet(d, topic), callback)
    THEN DictSet(d, topic, Remove(DictGet(d, topic), callback))
    ELSE d

\* the wildcard part of _dispatch: the subscriptions from position n on
RECURSIVE WildcardCallbacks(_, _, _)
WildcardCallbacks(d, topic, n) ==
    IF n > Len(d) THEN << >>
    ELSE (IF /\ HasChar(d[n].k, "*") \/ HasChar(d[n].k, "#")
             /\ _match_pattern(SplitDots(topic), SplitDots(d[n].k))
          THEN d[n].v ELSE << >>)
         \o WildcardCallbacks(d, topic, n + 1)

\* the list callbacks of _dispatch
Callbacks(d, topic) ==
    (IF DictHas(d, topic) THEN DictGet(d, topic) ELSE << >>)
    \o WildcardCallbacks(d, topic, 1)

\* history.append(message) evicting the newest entry instead of the oldest
AppendHistory_PopLast(h, message) ==
    IF Len(h) + 1 > MaxHistory THEN h ELSE Append(h, message)

\* history.append(message), then pop(0) when over capacity
AppendHistory(h, message) ==
    LET h1 == Append(h, message)
    IN  IF Len(h1) > MaxHistory THEN Tail(h1) ELSE h1

\* queue.put(message) with urgent messages put first
Put_UrgentFirst(q, message) ==
    IF message.priority = "URGENT" THEN << message >> \o q ELSE Append(q, message)

\* queue.put(message) on the unbounded FIFO queue: it does not suspend
Put(q, message) == Append(q, message)

\* future.set_result(message) overwriting a result already set
set_result_Overwrite(fut, message) == Future("done", message)

\* future.set_result(message): InvalidStateError unless the future is
\* pending, which _dispatch catches
set_result(fut, message) ==
    IF fut.state = "pending" THEN Future("done", message) ELSE fut

\* a callback raised at position i of n, taken as ending the dispatch
Caught_Abort(i, n) == n + 1

\* a callback raised at position i of n: the exception is caught and
\* printed, and the for loop goes on with the next callback
Caught(i, n) == i + 1

\* one callback is called with the message; s holds what a callback can
\* change: the log, the queue, the message counter and the futures
Call(cb, message, s) ==
    IF cb.f = "responder"
    THEN IF /\ message.correlation_id # NoCid
            /\ message.topic \in BusTopics
            /\ s.nmsg < MaxMsgs
         THEN [s EXCEPT !.nmsg = @ + 1,
                        !.queue = Put(@, [id |-> s.nmsg + 1,
                                    topic |-> ResponseTopic(message.correlation_id),
                                    priority |-> "NORMAL",
                                    correlation_id |-> message.correlation_id])]
         ELSE s
    ELSE IF cb.f = "response_handler"
    THEN IF message.correlation_id = cb.c
         THEN [s EXCEPT !.futs[cb.c] = set_result(@, message)]
         ELSE s
    ELSE s

\* the for loop over callbacks from position i on, up to the await of a
\* coroutine callback or to the end of the list
RECURSIVE RunCallbacks(_, _, _, _)
RunCallbacks(message, cbs, i, s) ==
    IF i > Len(cbs) THEN [s EXCEPT !.i = i, !.suspended = FALSE]
    ELSE LET s1 == [s EXCEPT !.log = Append(@, [m |-> message.id, cb |-> cbs[i]])]
         IN  IF cbs[i].f = "slow"
             THEN [s1 EXCEPT !.i = i, !.suspended = TRUE]
             ELSE RunCallbacks(message, cbs,
                               IF cbs[i].f = "bad" THEN Caught(i, Len(cbs)) ELSE i + 1,
                               Call(cbs[i], message, s1))

-----------------------------------------------------------------------------
(* MessageBus: the public calls and the _process_messages task *)

NotBus == << schedVars, cron_in, matchVars, boxVars, restVars >>

subscribe(topic, callback) ==
    /\ UserSubs(subs) < MaxSubs
    /\ subs' = Subscribe(subs, topic, callback)
    /\ regs' = Append(regs, [topic |-> topic, cb |-> callback])
    /\ UNCHANGED << hist_ret, queue, history, bus, log, dispatched, futs, req, nmsg,
                    NotBus >>

\* publish dropping the message while the loop is not running
publish_DropWhenStopped(topic, priority, correlation_id) ==
    /\ nmsg < MaxMsgs
    /\ nmsg' = nmsg + 1
    /\ queue' = IF bus.running
                THEN Put(queue, [id |-> nmsg + 1, topic |-> topic,
                                 priority |-> priority,
                                 correlation_id |-> correlation_id])
                ELSE queue
    /\ UNCHANGED << hist_ret, subs, history, bus, log, regs, dispatched, futs, req,
                    NotBus >>

publish(topic, priority, correlation_id) ==
    /\ nmsg < MaxMsgs
    /\ nmsg' = nmsg + 1
    /\ queue' = Put(queue, [id |-> nmsg + 1, topic |-> topic,
                            priority |-> priority,
                            correlation_id |-> correlation_id])
    /\ UNCHANGED << hist_ret, subs, history, bus, log, regs, dispatched, futs, req,
                    NotBus >>

\* request up to its await: the message is put on the queue and the
\* temporary handler subscribed before the caller is suspended
request(topic) ==
    /\ req.pc # "waiting"
    /\ Len(futs) < MaxReqs
    /\ nmsg < MaxMsgs
    /\ LET correlation_id == Len(futs) + 1 IN
        /\ nmsg' = nmsg + 1
        /\ queue' = Put(queue, [id |-> nmsg + 1, topic |-> topic,
                                priority |-> "NORMAL",
                                correlation_id |-> correlation_id])
        /\ futs' = Append(futs, Future("pending", NoMsg))
        /\ subs' = Subscribe(subs, ResponseTopic(correlation_id),
                             response_handler(correlation_id))
        /\ regs' = Append(regs, [topic |-> ResponseTopic(correlation_id),
                                 cb |-> response_handler(correlation_id)])
        /\ req' = [pc |-> "waiting", cid |-> correlation_id,
                   before |-> TotalSubs(subs), result |-> NoMsg]
    /\ UNCHANGED << hist_ret, history, bus, log, dispatched, NotBus >>

\* the finally clause of request with the handler left subscribed
Finally_Leak(d, correlation_id) == d

\* the finally clause of request
Finally(d, correlation_id) ==
    Unsubscribe(d, ResponseTopic(correlation_id), response_handler(correlation_id))

\* wait_for gives the result of the future
request_reply ==
    /\ req.pc = "waiting"
    /\ futs[req.cid].state = "done"
    /\ req' = [req EXCEPT !.pc = "returned", !.result = futs[req.cid].result]
    /\ subs' = Finally(subs, req.cid)
    /\ regs' = Remove(regs, [topic |-> ResponseTopic(req.cid),
                             cb |-> response_handler(req.cid)])
    /\ UNCHANGED << hist_ret, queue, history, bus, log, dispatched, futs, nmsg, NotBus >>

\* wait_for times out: it cancels the future, and request returns None
request_timeout ==
    /\ req.pc = "waiting"
    /\ futs[req.cid].state = "pending"
    /\ futs' = [futs EXCEPT ![req.cid] = Future("cancelled", NoMsg)]
    /\ req' = [req EXCEPT !.pc = "returned", !.result = NoMsg]
    /\ subs' = Finally(subs, req.cid)
    /\ regs' = Remove(regs, [topic |-> ResponseTopic(req.cid),
                             cb |-> response_handler(req.cid)])
    /\ UNCHANGED << hist_ret, queue, history, bus, log, dispatched, nmsg, NotBus >>

bus_start ==
    /\ ~bus.running
    /\ bus' = [NoBus EXCEPT !.running = TRUE, !.pc = "get"]
    /\ UNCHANGED << hist_ret, subs, queue, history, log, regs, dispatched, futs, req,
                    nmsg, NotBus >>

\* stop cancels the task wherever it is suspended: in queue.get or in the
\* await of a coroutine callback
bus_stop ==
    /\ bus.running
    /\ bus' = NoBus
    /\ UNCHANGED << hist_ret, subs, queue, history, log, regs, dispatched, futs, req,
                    nmsg, NotBus >>

\* Proceed with the message appended to the history when its dispatch begins
Proceed_AppendFirst(message, cbs, i, q) ==
    LET r == RunCallbacks(message, cbs, i,
                 [log |-> log, queue |-> q, nmsg |-> nmsg, futs |-> futs,
                  i |-> i, suspended |-> FALSE])
    IN  /\ log' = r.log
        /\ queue' = r.queue
        /\ nmsg' = r.nmsg
        /\ futs' = r.futs
        /\ bus' = IF r.suspended
                  THEN [bus EXCEPT !.pc = "await", !.msg = message,
                                   !.callbacks = cbs, !.i = r.i]
                  ELSE [NoBus EXCEPT !.running = TRUE, !.pc = "get"]
        /\ history' = IF i = 1 THEN AppendHistory(history, message) ELSE history
        /\ dispatched' = IF r.suspended THEN dispatched
                         ELSE Append(dispatched, message.id)
        /\ UNCHANGED << subs, regs, req, hist_ret, NotBus >>

\* the task goes on with the callbacks of bus.msg from position i, and to
\* the history when the list is done
Proceed(message, cbs, i, q) ==
    LET r == RunCallbacks(message, cbs, i,
                 [log |-> log, queue |-> q, nmsg |-> nmsg, futs |-> futs,
                  i |-> i, suspended |-> FALSE])
    IN  /\ log' = r.log
        /\ queue' = r.queue
        /\ nmsg' = r.nmsg
        /\ futs' = r.futs
        /\ bus' = IF r.suspended
                  THEN [bus EXCEPT !.pc = "await", !.msg = message,
                                   !.callbacks = cbs, !.i = r.i]
                  ELSE [NoBus EXCEPT !.running = TRUE, !.pc = "get"]
        /\ history' = IF r.suspended THEN history
                      ELSE AppendHistory(history, message)
        /\ dispatched' = IF r.suspended THEN dispatched
                         ELSE Append(dispatched, message.id)
        /\ UNCHANGED << subs, regs, req, hist_ret, NotBus >>

\* queue.get() gives a message and _dispatch is called with it
Get ==
    /\ bus.pc = "get"
    /\ queue # << >>
    /\ Proceed(Head(queue), Callbacks(subs, Head(queue).topic), 1, Tail(queue))

\* CallbackReturns with the list of callbacks built anew from the
\* subscriptions
CallbackReturns_Recompute ==
    /\ bus.pc = "await"
    /\ Proceed(bus.msg, Callbacks(subs, bus.msg.topic), bus.i + 1, queue)

\* the coroutine callback awaited returns or raises an Exception
CallbackReturns ==
    /\ bus.pc = "await"
    /\ Proceed(bus.msg, bus.callbacks, bus.i + 1, queue)

\* messages[-limit:]
LastItems(messages, limit) ==
    LET first == IF -limit < 0
                 THEN (IF Len(messages) - limit < 0 THEN 0 ELSE Len(messages) - limit)
                 ELSE (IF -limit > Len(messages) THEN Len(messages) ELSE -limit)
    IN  SubSeq(messages, first + 1, Len(messages))

\* the topic values given to get_history: None (as the empty string) or a topic
HistoryTopics == { << >> } \cup BusTopics

GetHistory(topic, limit) ==
    LET messages == IF topic # << >>
                    THEN SelectSeq(history, LAMBDA m : m.topic = topic)
                    ELSE history
    IN  LastItems(messages, limit)

get_history(topic, limit) ==
    /\ hist_ret' = [called |-> TRUE, topic |-> topic, limit |-> limit,
                    result |-> GetHistory(topic, limit)]
    /\ UNCHANGED << subs, queue, history, bus, log, regs, dispatched, futs, req, nmsg,
                    NotBus >>

\* the histories the bus can hold: up to MaxHistory messages with ids in
\* the order of their dispatch
HistoryMessages ==
    { [id |-> n, topic |-> t, priority |-> "NORMAL", correlation_id |-> NoCid] :
        n \in 1..MaxMsgs, t \in BusTopics \cup { ResponseTopic(1) } }
Histories ==
    { h \in SeqsUpTo(HistoryMessages, MaxHistory) :
        \A n \in 1..(Len(h) - 1) : h[n].id < h[n + 1].id }

InitHist ==
    /\ clock = Min(StartTimes)
    /\ objs = << >>
    /\ jobs = << >>
    /\ running = FALSE
    /\ task = NoTask
    /\ runs = << >>
    /\ ticks = 0
    /\ ret = "None"
    /\ ncalls = 0
    /\ cron_in = << >>
    /\ topic_in = << >>
    /\ pattern_in = << >>
    /\ delivered = Undelivered
    /\ subs = << >>
    /\ queue = << >>
    /\ history \in Histories
    /\ bus = NoBus
    /\ log = << >>
    /\ regs = << >>
    /\ dispatched = << >>
    /\ futs = << >>
    /\ req = NoReq
    /\ nmsg = MaxMsgs
    /\ hist_ret = NoHistRet
    /\ BoxInit
    /\ RestInit

NextHist ==
    \E topic \in HistoryTopics, limit \in 0..MaxLimit : get_history(topic, limit)

SpecHist == InitHist /\ [][NextHist]_vars

InitBus ==
    /\ clock = Min(StartTimes)
    /\ objs = << >>
    /\ jobs = << >>
    /\ running = FALSE
    /\ task = NoTask
    /\ runs = << >>
    /\ ticks = 0
    /\ ret = "None"
    /\ ncalls = 0
    /\ cron_in = << >>
    /\ topic_in = << >>
    /\ pattern_in = << >>
    /\ delivered = Undelivered
    /\ BusInit
    /\ BoxInit
    /\ RestInit

NextBus ==
    \/ \E topic \in BusTopics, callback \in UserCallbacks : subscribe(topic, callback)
    \/ \E topic \in BusTopics, priority \in Priorities :
           publish(topic, priority, NoCid)
    \/ \E correlation_id \in 1..Len(futs) :
           publish(ResponseTopic(correlation_id), "URGENT", correlation_id)
    \/ \E topic \in BusTopics : request(topic)
    \/ request_reply
    \/ request_timeout
    \/ bus_start
    \/ bus_stop
    \/ Get
    \/ CallbackReturns

SpecBus == InitBus /\ [][NextBus]_vars

-----------------------------------------------------------------------------
(* ToolSandbox (dino_os/tool_sandbox.py) *)

\* number of processes spawned in one run
MaxSpawn == 3

ToolNames == { "t1", "t2" }
ToolPaths == { "tool.py" }

\* what the last call returned: a ToolResult, or an exception that left the call
ToolResult(success, stderr, return_code) ==
    [kind |-> "ToolResult", success |-> success, stderr |-> stderr,
     return_code |-> return_code]
Raised(exc) ==
    [kind |-> "exception", success |-> FALSE, stderr |-> exc, return_code |-> 0]

register_tool(name, path, allowed) ==
    /\ tools' = DictSet(tools, name, [path |-> path, allowed |-> allowed])
    /\ UNCHANGED << spawned, tool_ret, restrict_to_workspace >>
    /\ UNCHANGED << schedVars, cron_in, matchVars, busVars, restVars >>

\* the gate of execute with every tool taken as allowed
Gate_AllAllowed(name) ==
    IF ~DictHas(tools, name) THEN "Unknown tool" ELSE "pass"

\* the two early returns of execute: the reason of the refusal, or "pass"
Gate(name) ==
    IF ~DictHas(tools, name) THEN "Unknown tool"
    ELSE IF ~DictGet(tools, name).allowed THEN "not allowed"
    ELSE "pass"

\* what the spawned process would do, and whether it can be spawned at all
ProcOutcomes == { "spawn fails", "exit 0", "exit 1", "hangs" }

\* the keyword parameters of asyncio.subprocess.Process.communicate
CommunicateParams == { "input" }

\* the names the asyncio module has that the except clauses refer to
AsyncioNames == { "TimeoutError", "CancelledError" }

\* what the body of the try statement does: the exception it raises, or the
\* exit of the process ("exit 0", "exit 1") when it gets to its end
TryBody(outcome, kwargs) ==
    IF outcome = "spawn fails" THEN "OSError"
    ELSE IF ~(kwargs \subseteq CommunicateParams) THEN "TypeError"
    ELSE IF outcome = "hangs" THEN "TimeoutExpired"
    ELSE outcome

\* the try statement of execute and execute_python: its except clauses
\* are tried in order, and the expression of a clause is evaluated when an
\* exception is matched against it
TryExcept(outcome, kwargs) ==
    LET r == TryBody(outcome, kwargs) IN
    IF r = "exit 0" THEN ToolResult(TRUE, "", 0)
    ELSE IF r = "exit 1" THEN ToolResult(FALSE, "", 1)
    ELSE IF "TimeoutExpired" \notin AsyncioNames THEN Raised("AttributeError")
    ELSE IF r = "TimeoutExpired" THEN ToolResult(FALSE, "timed out", -1)
    ELSE ToolResult(FALSE, r, -1)

Spawns(outcome) == IF outcome = "spawn fails" THEN 0 ELSE 1

execute(name, outcome) ==
    /\ spawned < MaxSpawn
    /\ IF Gate(name) # "pass"
       THEN /\ tool_ret' = ToolResult(FALSE, Gate(name), -1)
            /\ spawned' = spawned
       ELSE /\ tool_ret' = TryExcept(outcome, { "timeout" })
            /\ spawned' = spawned + Spawns(outcome)
    /\ UNCHANGED << tools, restrict_to_workspace >>
    /\ UNCHANGED << schedVars, cron_in, matchVars, busVars, restVars >>

execute_python(outcome) ==
    /\ spawned < MaxSpawn
    /\ tool_ret' = TryExcept(outcome, { "timeout" })
    /\ spawned' = spawned + Spawns(outcome)
    /\ UNCHANGED << tools, restrict_to_workspace >>
    /\ UNCHANGED << schedVars, cron_in, matchVars, busVars, restVars >>

InitBox ==
    /\ clock = Min(StartTimes)
    /\ objs = << >>
    /\ jobs = << >>
    /\ running = FALSE
    /\ task = NoTask
    /\ runs = << >>
    /\ ticks = 0
    /\ ret = "None"
    /\ ncalls = 0
    /\ cron_in = << >>
    /\ topic_in = << >>
    /\ pattern_in = << >>
    /\ delivered = Undelivered
    /\ BusInit
    /\ BoxInit
    /\ RestInit

NextBox ==
    \/ \E name \in ToolNames, path \in ToolPaths, allowed \in BOOLEAN :
           register_tool(name, path, allowed)
    \/ \E name \in ToolNames, outcome \in ProcOutcomes : execute(name, outcome)
    \/ \E outcome \in ProcOutcomes : execute_python(outcome)

SpecBox == InitBox /\ [][NextBox]_vars

-----------------------------------------------------------------------------
(* Claims about ToolSandbox *)

\* the name is not registered, or its latest registration has allowed = false
Refused(name) ==
    \/ ~DictHas(tools, name)
    \/ ~DictGet(tools, name).allowed

\* C19: execute on a name that is not registered, or whose most recent
\* register_tool call set allowed = false, returns a ToolResult with
\* success = false and spawns no process; execute spawns a process only for
\* a name that is registered and currently allowed.
C19_FailClosedGate ==
    [][ \A name \in ToolNames, outcome \in ProcOutcomes :
          execute(name, outcome) =>
            /\ Refused(name) =>
                  /\ tool_ret'.kind = "ToolResult"
                  /\ tool_ret'.success = FALSE
                  /\ spawned' = spawned
            /\ spawned' > spawned =>
                  DictHas(tools, name) /\ DictGet(tools, name).allowed ]_vars

\* a tool that ran before is registered again with allowed = false, and
\* execute refuses it
C19_Witness ==
    /\ tool_ret = ToolResult(FALSE, "not allowed", -1)
    /\ spawned >= 1
    /\ \E name \in ToolNames : DictHas(tools, name) /\ ~DictGet(tools, name).allowed

\* C20: for a registered and allowed tool execute returns a ToolResult and
\* no exception leaves the call, whether the spawn fails, the process
\* exceeds the timeout or exits with a non-zero code (likewise for
\* execute_python); in these cases the result has success = false.
C20_NoExceptionLeavesExecute ==
    /\ tool_ret.kind \in { "None", "ToolResult" }
    /\ tool_ret.kind = "ToolResult" /\ tool_ret.return_code # 0 => ~tool_ret.success

-----------------------------------------------------------------------------
(* Claims about MessageBus.get_history *)

\* the history restricted to the topic given, if one is given
Restricted(h, topic) ==
    IF topic = << >> THEN h ELSE SelectSeq(h, LAMBDA m : m.topic = topic)

\* C18: for every limit >= 0, get_history(topic, limit) returns at most
\* limit messages, and they are the most recent ones of the history
\* (restricted to the topic when one is given), in dispatch order.
C18_GetHistoryMostRecent ==
    hist_ret.called =>
        LET h == Restricted(history, hist_ret.topic)
            n == Min({ hist_ret.limit, Len(h) })
        IN  /\ Len(hist_ret.result) <= hist_ret.limit
            /\ hist_ret.result = SubSeq(h, Len(h) - n + 1, Len(h))

-----------------------------------------------------------------------------
(* Claims about MessageBus dispatch *)

\* the pattern matches the topic: by equality, segment by segment with "*"
\* for one segment, or up to a final "#" that stands for the remainder
PatternFits(topic, pattern) ==
    LET tp == SplitDots(topic)
        pp == SplitDots(pattern)
    IN  \/ topic = pattern
        \/ /\ Len(tp) = Len(pp)
           /\ \A i \in 1..Len(pp) : SegmentFits(tp, pp, i)
        \/ /\ HashTail(pp)
           /\ Len(tp) >= Len(pp)
           /\ \A i \in 1..(Len(pp) - 1) : SegmentFits(tp, pp, i)

\* every callback there can be
AllCallbacks == UserCallbacks \cup { response_handler(c) : c \in 1..MaxReqs }

\* the callbacks of the subscriptions that match the topic, in the order in
\* which the subscriptions were registered
Matching(topic) ==
    LET fit == SelectSeq(regs, LAMBDA r : PatternFits(topic, r.topic))
    IN  [n \in 1..Len(fit) |-> fit[n].cb]

\* the callbacks invoked with message id, in the order of their invocation
Invoked(l, id) ==
    LET evs == SelectSeq(l, LAMBDA e : e.m = id)
    IN  [n \in 1..Len(evs) |-> evs[n].cb]

CountIn(l, x) == Len(SelectSeq(l, LAMBDA y : y = x))

\* this step takes a message from the queue and dispatches it to the end,
\* no callback being a coroutine
DispatchedAtOnce ==
    /\ bus.pc = "get"
    /\ queue # << >>
    /\ dispatched' = Append(dispatched, Head(queue).id)

\* C11: for every dispatched message and every registered subscription
\* whose pattern matches the topic, the callback is invoked exactly once
\* for that subscription with that message; subscriptions whose pattern
\* does not match are not invoked; for every topic string.
C11_FanOutExactlyOnce ==
    [][ DispatchedAtOnce =>
          \A cb \in AllCallbacks :
              CountIn(Invoked(log', Head(queue).id), cb)
                 = CountIn(Matching(Head(queue).topic), cb) ]_vars

\* C12: for one message, matching callbacks are invoked in the order in
\* which their subscriptions were registered, across all patterns (checked
\* for topics without wildcard characters).
C12_RegistrationOrder ==
    [][ ( /\ DispatchedAtOnce
          /\ ~HasChar(Head(queue).topic, "*")
          /\ ~HasChar(Head(queue).topic, "#") )
        => Invoked(log', Head(queue).id) = Matching(Head(queue).topic) ]_vars

\* C13: messages are delivered in the order of their publish calls (ids
\* count the publish calls): every callback invocation for an earlier
\* message comes before any for a later one and has finished by then, and
\* earlier messages precede later ones in the history, whatever the
\* priorities and whichever callbacks are coroutines.
C13_FifoDelivery ==
    /\ \A i, j \in 1..Len(log) : i < j => log[i].m <= log[j].m
    /\ \A i, j \in 1..Len(history) : i < j => history[i].id < history[j].id
    /\ \A i, j \in 1..Len(dispatched) : i < j => dispatched[i] < dispatched[j]
    /\ bus.pc = "await" =>
          /\ log # << >>
          /\ log[Len(log)] = [m |-> bus.msg.id, cb |-> bus.callbacks[bus.i]]

\* an URGENT message published after a LOW one was delivered after it, the
\* LOW one having gone to a coroutine callback
C13_Witness ==
    /\ Len(history) = 2
    /\ history[1].priority = "LOW"
    /\ history[2].priority = "URGENT"
    /\ \E i, j \in 1..Len(log) :
          /\ i < j
          /\ log[i] = [m |-> history[1].id, cb |-> Callback("slow")]
          /\ log[j].m = history[2].id

\* C14: when a callback raises while a message is dispatched, the remaining
\* matching callbacks of the message are still invoked, the message is
\* appended to the history, and the dispatch loop goes on.
C14_CallbackFailureIsolation ==
    [][ /\ ( /\ DispatchedAtOnce
             /\ CountIn(Matching(Head(queue).topic), Callback("bad")) > 0 )
           => /\ \A cb \in AllCallbacks :
                    CountIn(Matching(Head(queue).topic), cb) > 0
                       => CountIn(Invoked(log', Head(queue).id), cb) > 0
              /\ history'[Len(history')] = Head(queue)
              /\ bus'.running /\ bus'.pc = "get"
        /\ ( /\ bus.pc = "await"
             /\ bus' # bus
             /\ bus'.running )
           => \/ /\ bus'.pc = "await" /\ bus'.msg = bus.msg /\ bus'.i > bus.i
                 /\ \A n \in 1..bus'.i :
                       CountIn(Invoked(log', bus.msg.id), bus.callbacks[n]) > 0
              \/ /\ bus'.pc = "get"
                 /\ \A n \in 1..Len(bus.callbacks) :
                       CountIn(Invoked(log', bus.msg.id), bus.callbacks[n]) > 0
                 /\ history'[Len(history')] = bus.msg ]_vars

\* a message went to a callback that raises and then to another callback,
\* and is in the history; a later message was dispatched too
C14_Witness ==
    /\ \E i \in 1..Len(log) :
          /\ log[i].cb = Callback("bad")
          /\ i < Len(log)
          /\ log[i + 1] = [m |-> log[i].m, cb |-> Callback("responder")]
          /\ \E k \in 1..Len(history) : history[k].id = log[i].m
          /\ \E k \in 1..Len(dispatched) : dispatched[k] > log[i].m

\* C15: the history holds exactly min(n, MAX) messages, n being the number
\* of messages dispatched so far and MAX the capacity of the history, and
\* they are the MAX most recently dispatched ones in dispatch order.
C15_HistoryBound ==
    LET n == Len(dispatched)
        k == Min({ n, MaxHistory })
    IN  /\ Len(history) = k
        /\ \A i \in 1..Len(history) : history[i].id = dispatched[n - k + i]

\* more messages than the history can hold were dispatched
C15_Witness ==
    /\ Len(dispatched) = MaxHistory + 1
    /\ Len(history) = MaxHistory
    /\ history[1].id = dispatched[2]

-----------------------------------------------------------------------------
(* Claims about MessageBus.request *)

\* the callback is in the list of some pattern
Registered(d, cb) == \E n \in 1..Len(d) : InList(d[n].v, cb)

\* this step is the return of request
RequestReturns == req.pc = "waiting" /\ req'.pc = "returned"

\* C16: without a responder request returns None when the timeout elapses;
\* when request returns, with None or with a reply, its temporary handler
\* is no longer registered, and the number of registered callbacks is back
\* to its value before the call (nobody else having subscribed meanwhile).
C16_RequestLeavesNoSubscription ==
    [][ RequestReturns =>
          /\ futs[req.cid].state = "pending" => req'.result = NoMsg
          /\ ~Registered(subs', response_handler(req.cid))
          /\ TotalSubs(subs') = TotalSubs(subs) - 1
          /\ UserSubs(subs') = req.before => TotalSubs(subs') = req.before ]_vars

\* a request made while an agent was subscribed has timed out
C16_Witness ==
    /\ req.pc = "returned"
    /\ req.result = NoMsg
    /\ futs[req.cid].state = "cancelled"
    /\ req.before >= 1
    /\ TotalSubs(subs) = req.before

\* the positions in the log at which the handler of the request was called
HandlerCalls(l, correlation_id) ==
    { i \in 1..Len(l) : l[i].cb = response_handler(correlation_id) }

\* C17: if a message with topic response.<cid> and correlation id <cid> is
\* dispatched before the timeout, request returns that message: the first
\* one when several replies are published, the later ones leaving the
\* dispatch loop running; also when the reply comes from inside the
\* callback that handles the request message.
C17_RequestReturnsFirstReply ==
    [][ /\ (RequestReturns /\ HandlerCalls(log, req.cid) # { }) =>
              /\ req'.result.id = log[Min(HandlerCalls(log, req.cid))].m
              /\ req'.result.topic = ResponseTopic(req.cid)
              /\ req'.result.correlation_id = req.cid
        /\ \A c \in 1..Len(futs) :
              ( /\ futs[c].state # "pending"
                /\ HandlerCalls(log', c) # HandlerCalls(log, c) ) =>
                  /\ bus'.running
                  /\ bus'.pc = "await" \/ dispatched' # dispatched ]_vars

\* a responder replied from inside its callback, a second reply was
\* published and dispatched as well, and request returned the first
C17_Witness ==
    /\ req.pc = "returned"
    /\ req.result.priority = "NORMAL"
    /\ req.result.topic = ResponseTopic(req.cid)
    /\ Cardinality(HandlerCalls(log, req.cid)) = 2
    /\ \E i \in 1..Len(log) :
          log[i] = [m |-> req.result.id - 1, cb |-> Callback("responder")]
    /\ bus.running

-----------------------------------------------------------------------------
(* Claims about the outcomes of ToolSandbox.execute *)

\* C21: when the spawned process of an allowed tool has not exited within
\* the timeout, execute stops waiting and returns a ToolResult with
\* success = false, return code -1 and a stderr text stating the timeout.
C21_ExecuteTimeout ==
    [][ \A name \in ToolNames :
          (execute(name, "hangs") /\ ~Refused(name))
             => /\ tool_ret'.kind = "ToolResult"
                /\ tool_ret'.success = FALSE
                /\ tool_ret'.return_code = -1
                /\ tool_ret'.stderr = "timed out" ]_vars

\* the return code of a process that exits
ExitCode(outcome) == IF outcome = "exit 0" THEN 0 ELSE 1

\* C22: when the spawned process of an allowed tool exits within the
\* timeout with return code rc, execute returns a ToolResult whose
\* return_code is rc and whose success is true iff rc = 0.
C22_ExecuteNormalExit ==
    [][ \A name \in ToolNames, outcome \in { "exit 0", "exit 1" } :
          (execute(name, outcome) /\ ~Refused(name))
             => /\ tool_ret'.kind = "ToolResult"
                /\ tool_ret'.return_code = ExitCode(outcome)
                /\ tool_ret'.success = (ExitCode(outcome) = 0) ]_vars

-----------------------------------------------------------------------------
(* Claims about the cron advance *)

\* C30: at every clock value the next-due computed for a cron job, at
\* registration and after each firing, is defined and is the start of a
\* minute; the computation never fails, so add_cron_job with a well-formed
\* expression does not raise and the tick loop keeps running.
C30_CronAdvanceNeverFails ==
    /\ ret # "ValueError"
    /\ task.pc # "failed"
    /\ \A r \in 1..Len(objs) :
          objs[r].schedule_type = "cron"
             => objs[r].next_run % (60 * SubSec) = 0

-----------------------------------------------------------------------------
(* FileSandbox (dino_os/tool_sandbox.py) *)

\* number of segments of the paths given
MaxPathLen == 3

\* path segments: the parent directory, the workspace directory, a
\* sibling whose name starts with the name of the workspace, and a child
DotDot == << ".", "." >>
SegmentNames == { DotDot, << "w" >>, << "w", "x" >>, << "a" >> }

\* the paths given: absolute or relative, as their lists of segments
PathInputs ==
    { [abs |-> a, segs |-> p] : a \in BOOLEAN, p \in SeqsUpTo(SegmentNames, MaxPathLen) }

\* FileSandbox.workspace_path (resolved) and the working directory of the
\* process, as the lists of segments under the root directory
workspace_path == << << "w" >> >>
Cwd == << << "w" >>, << "a" >> >>

\* ".." segments are folded from the left; the parent of the root directory
\* is the root directory (no symbolic links in the file system)
RECURSIVE Fold(_, _)
Fold(done, rest) ==
    IF rest = << >> THEN done
    ELSE IF Head(rest) = DotDot
         THEN Fold(IF done = << >> THEN << >> ELSE SubSeq(done, 1, Len(done) - 1),
                   Tail(rest))
    ELSE Fold(Append(done, Head(rest)), Tail(rest))

\* Path(path).resolve()
Resolve(path) ==
    IF path.abs THEN Fold(<< >>, path.segs) ELSE Fold(Cwd, path.segs)

\* str(path) of a resolved path
RECURSIVE PathStr(_)
PathStr(segs) ==
    IF segs = << >> THEN << >>
    ELSE << "/" >> \o Head(segs) \o PathStr(Tail(segs))

\* resolved.relative_to(root) done on the strings, as str.startswith
relative_to_StartsWith(resolved, root) ==
    LET a == PathStr(resolved)
        b == PathStr(root)
    IN  Len(a) >= Len(b) /\ SubSeq(a, 1, Len(b)) = b

\* resolved.relative_to(root) does not raise ValueError: root is resolved
\* itself or one of its parents, segment by segment
relative_to(resolved, root) ==
    /\ Len(resolved) >= Len(root)
    /\ SubSeq(resolved, 1, Len(root)) = root

\* _check_path: "ValueError", or "ok" when the resolved path is returned
_check_path(path) ==
    IF restrict_enabled /\ ~relative_to(Resolve(path), workspace_path)
    THEN "ValueError" ELSE "ok"

\* what a FileSandbox operation did: what it returned or raised, whether it
\* got to the file system, and whether the restriction was enabled
FileRet(op, r, accepted) ==
    [op |-> op, ret |-> r, accepted |-> accepted, restricted |-> restrict_enabled]

NotFile == << schedVars, cron_in, matchVars, busVars, boxVars, agentVars, llmVars >>

\* read: the text of the file, or the error of Path.read_text
read(fs) ==
    /\ file_ret' = IF _check_path(fs_in) = "ValueError"
                   THEN FileRet("read", "ValueError", FALSE)
                   ELSE FileRet("read", fs, TRUE)
    /\ UNCHANGED << fs_in, restrict_enabled, NotFile >>

write ==
    /\ file_ret' = IF _check_path(fs_in) = "ValueError"
                   THEN FileRet("write", "ValueError", FALSE)
                   ELSE FileRet("write", "None", TRUE)
    /\ UNCHANGED << fs_in, restrict_enabled, NotFile >>

\* exists: ValueError is caught
exists(fs) ==
    /\ file_ret' = IF _check_path(fs_in) = "ValueError"
                   THEN FileRet("exists", "False", FALSE)
                   ELSE FileRet("exists", fs, TRUE)
    /\ UNCHANGED << fs_in, restrict_enabled, NotFile >>

\* list_dir: the names in the directory, or [] when it is no directory
list_dir(fs) ==
    /\ file_ret' = IF _check_path(fs_in) = "ValueError"
                   THEN FileRet("list_dir", "ValueError", FALSE)
                   ELSE FileRet("list_dir", fs, TRUE)
    /\ UNCHANGED << fs_in, restrict_enabled, NotFile >>

set_restriction(enabled) ==
    /\ restrict_enabled' = enabled
    /\ file_ret' = NoFileRet
    /\ UNCHANGED << fs_in, NotFile >>

\* str.startswith
StartsWith(a, b) == Len(a) >= Len(b) /\ SubSeq(a, 1, Len(b)) = b

\* ToolSandbox._is_path_safe, the workspace_path of the ToolSandbox being
\* the one of the FileSandbox
_is_path_safe(path) ==
    IF ~restrict_to_workspace THEN TRUE
    ELSE StartsWith(PathStr(Resolve(path)), PathStr(workspace_path))

\* what the ToolSandbox and the other objects leave alone in these calls
NotPathSafe ==
    << schedVars, cron_in, matchVars, busVars, tools, spawned, fileVars,
       agentVars, llmVars >>

is_path_safe ==
    /\ tool_ret' = [kind |-> "bool", success |-> _is_path_safe(fs_in),
                    stderr |-> "", return_code |-> 0]
    /\ UNCHANGED << restrict_to_workspace, NotPathSafe >>

set_workspace_restriction(enabled) ==
    /\ restrict_to_workspace' = enabled
    /\ tool_ret' = NoToolRet
    /\ UNCHANGED NotPathSafe

InitFile ==
    /\ clock = Min(StartTimes)
    /\ objs = << >>
    /\ jobs = << >>
    /\ running = FALSE
    /\ task = NoTask
    /\ runs = << >>
    /\ ticks = 0
    /\ ret = "None"
    /\ ncalls = 0
    /\ cron_in = << >>
    /\ topic_in = << >>
    /\ pattern_in = << >>
    /\ delivered = Undelivered
    /\ BusInit
    /\ BoxInit
    /\ fs_in \in PathInputs
    /\ restrict_enabled = TRUE
    /\ file_ret = NoFileRet
    /\ AgentInit
    /\ LlmInit

NextFile ==
    \/ \E fs \in { "text", "FileNotFoundError" } : read(fs)
    \/ write
    \/ \E fs \in { "True", "False" } : exists(fs)
    \/ \E fs \in { "names", "[]" } : list_dir(fs)
    \/ \E enabled \in BOOLEAN : set_restriction(enabled)
    \/ is_path_safe
    \/ \E enabled \in BOOLEAN : set_workspace_restriction(enabled)

SpecFile == InitFile /\ [][NextFile]_vars

-----------------------------------------------------------------------------
(* Claims about FileSandbox *)

\* the canonical resolution of the path is the workspace root or a
\* descendant of it
InsideWorkspace(path) ==
    LET r == Resolve(path) IN
    /\ Len(r) >= Len(workspace_path)
    /\ \A i \in 1..Len(workspace_path) : r[i] = workspace_path[i]

\* C23: with restriction enabled, for every path (absolute or relative,
\* with any number of ".." segments) each of read, write, exists and
\* list_dir accepts the path iff its canonical resolution is the workspace
\* root or a descendant of it.
C23_WorkspaceConfinement ==
    (file_ret.op # "none" /\ file_ret.restricted)
       => (file_ret.accepted <=> InsideWorkspace(fs_in))

\* a path that leaves the workspace through ".." and nets back inside was
\* accepted
C23_Witness ==
    /\ fs_in = [abs |-> TRUE, segs |-> << << "w" >>, DotDot, << "w" >> >>]
    /\ file_ret.op = "list_dir"
    /\ file_ret.restricted
    /\ file_ret.accepted

\* C24: for a path that resolves outside the workspace with restriction
\* enabled, read and write raise an explicit error, while exists returns
\* false and list_dir returns an empty list without raising.
C24_RejectionOutcomes ==
    (file_ret.op # "none" /\ file_ret.restricted /\ ~InsideWorkspace(fs_in))
       => /\ file_ret.op \in { "read", "write" } => file_ret.ret = "ValueError"
          /\ file_ret.op = "exists" => file_ret.ret = "False"
          /\ file_ret.op = "list_dir" => file_ret.ret = "[]"

-----------------------------------------------------------------------------
(* Agent (dino_os/agent_core.py) *)

\* number of background tasks launched in one run
MaxAgentTasks == 3

\* the names and the callables given to register_tool
AgentToolNames == { "t1", "t2" }
AgentFuncs == { "f", "g" }

\* a background task is live until its coroutine has ended
Live == { "live", "cancelling" }
Ended == { "returned", "raised", "cancelled" }

NotAgent == << schedVars, cron_in, matchVars, busVars, boxVars, fileVars, llmVars >>

AgentRet(call, name, result, invoked) ==
    [call |-> call, name |-> name, result |-> result, invoked |-> invoked]

\* start: a no-op when the running flag is set
Agent_start ==
    /\ IF ~a_running
       THEN /\ Len(a_tasks) < MaxAgentTasks
            /\ a_running' = TRUE
            /\ a_tasks' = Append(a_tasks, "live")
            /\ a_task' = Len(a_tasks) + 1
       ELSE UNCHANGED << a_running, a_tasks, a_task >>
    /\ a_ret' = AgentRet("start", "", "None", "None")
    /\ UNCHANGED << a_stop, a_tools, NotAgent >>

\* what "await self._task" gives once the task has ended
AwaitTask(state) == IF state = "cancelled" THEN "CancelledError" ELSE "None"

\* the try statement of stop: CancelledError is swallowed
stop_except(raised) == IF raised = "CancelledError" THEN "None" ELSE raised

\* task.cancel(): a request the task gets at its next step; no effect on a
\* task that has ended
Cancel(state) == IF state = "live" THEN "cancelling" ELSE state

\* stop up to its await: it returns at once when there is no task or the
\* task has ended
Agent_stop ==
    /\ a_stop.pc = "none"
    /\ a_running' = FALSE
    /\ IF a_task = NoAgentTask
       THEN /\ a_ret' = AgentRet("stop", "", "None", "None")
            /\ UNCHANGED << a_tasks, a_stop >>
       ELSE /\ a_tasks' = [a_tasks EXCEPT ![a_task] = Cancel(@)]
            /\ IF a_tasks[a_task] \in Ended
               THEN /\ a_ret' = AgentRet("stop", "",
                                    stop_except(AwaitTask(a_tasks[a_task])), "None")
                    /\ UNCHANGED a_stop
               ELSE /\ a_stop' = [pc |-> "await", target |-> a_task,
                                   launched |-> Len(a_tasks)]
                    /\ UNCHANGED a_ret
    /\ UNCHANGED << a_task, a_tools, NotAgent >>

\* the task awaited by stop has ended
Agent_stop_returns ==
    /\ a_stop.pc = "await"
    /\ a_tasks[a_stop.target] \in Ended
    /\ a_ret' = AgentRet("stop", "",
                    stop_except(AwaitTask(a_tasks[a_stop.target])), "None")
    /\ a_stop' = NoStop
    /\ UNCHANGED << a_running, a_tasks, a_task, a_tools, NotAgent >>

\* the finally clause of _run_loop leaving the flag as it is
run_loop_finally_Keep(flag) == flag

\* the finally clause of _run_loop
run_loop_finally(flag) == FALSE

\* how run() can end: by returning or raising an Exception, and, once
\* cancellation was requested, by letting CancelledError through
RunOutcomes(state) ==
    IF state = "cancelling" THEN Ended ELSE { "returned", "raised" }

\* _run_loop: run() of task r ends
run_ends(r, outcome) ==
    /\ a_tasks[r] \in Live
    /\ outcome \in RunOutcomes(a_tasks[r])
    /\ a_tasks' = [a_tasks EXCEPT ![r] = outcome]
    /\ a_running' = run_loop_finally(a_running)
    /\ UNCHANGED << a_task, a_stop, a_tools, a_ret, NotAgent >>

\* self._tools[name] = Tool(...) keeping the tool registered first
RegisterTool_KeepFirst(d, name, func) ==
    IF DictHas(d, name) THEN d ELSE DictSet(d, name, func)

\* self._tools[name] = Tool(name, description, func)
RegisterTool(d, name, func) == DictSet(d, name, func)

Agent_register_tool(name, func) ==
    /\ a_tools' = RegisterTool(a_tools, name, func)
    /\ a_ret' = AgentRet("register_tool", name, "None", "None")
    /\ UNCHANGED << a_running, a_tasks, a_task, a_stop, NotAgent >>

\* what calling func gives
ResultOf(func) == IF func = "f" THEN "f()" ELSE "g()"

execute_tool(tool_name) ==
    /\ a_ret' = IF ~DictHas(a_tools, tool_name)
                THEN AgentRet("execute_tool", tool_name, "ValueError", "None")
                ELSE AgentRet("execute_tool", tool_name,
                              ResultOf(DictGet(a_tools, tool_name)),
                              DictGet(a_tools, tool_name))
    /\ UNCHANGED << a_running, a_tasks, a_task, a_stop, a_tools, NotAgent >>

InitAgent ==
    /\ clock = Min(StartTimes)
    /\ objs = << >>
    /\ jobs = << >>
    /\ running = FALSE
    /\ task = NoTask
    /\ runs = << >>
    /\ ticks = 0
    /\ ret = "None"
    /\ ncalls = 0
    /\ cron_in = << >>
    /\ topic_in = << >>
    /\ pattern_in = << >>
    /\ delivered = Undelivered
    /\ BusInit
    /\ BoxInit
    /\ RestInit

NextAgent ==
    \/ Agent_start
    \/ Agent_stop
    \/ Agent_stop_returns
    \/ \E r \in 1..Len(a_tasks), outcome \in Ended : run_ends(r, outcome)
    \/ \E name \in AgentToolNames, func \in AgentFuncs : Agent_register_tool(name, func)
    \/ \E name \in AgentToolNames : execute_tool(name)

SpecAgent == InitAgent /\ [][NextAgent]_vars

-----------------------------------------------------------------------------
(* Claims about the Agent lifecycle and its tool registry *)

LiveTasks == { r \in 1..Len(a_tasks) : a_tasks[r] \in Live }

\* a step in which a call of stop returns
StopReturns == (Agent_stop \/ Agent_stop_returns) /\ a_stop'.pc = "none"

\* C25: in every reachable state an Agent has at most one live background
\* task.
C25_SingleBackgroundTask == Cardinality(LiveTasks) <= 1

\* C26: whenever stop returns, it returns None, every background task of the
\* agent has ended and the running flag is false.
C26_StopReturnsStopped ==
    [][StopReturns =>
          /\ a_ret'.result = "None"
          /\ ~a_running'
          /\ \A r \in 1..Len(a_tasks') : a_tasks'[r] \in Ended]_vars

\* C27: when run() raises in the background task the running flag becomes
\* false and no caller is handed the exception, and a start() with the flag
\* false launches run() again.
C27_RunFailureContained ==
    [][/\ \A r \in 1..Len(a_tasks) :
            run_ends(r, "raised") =>
                /\ ~a_running'
                /\ a_tasks'[r] = "raised"
                /\ a_ret' = a_ret
       /\ (Agent_start /\ ~a_running) =>
                /\ a_running'
                /\ Len(a_tasks') = Len(a_tasks) + 1
                /\ a_tasks'[Len(a_tasks')] = "live"
                /\ a_ret'.result = "None"]_vars

\* run() raised in the first task and start() has launched run() again
C27_Witness ==
    /\ a_tasks = << "raised", "live" >>
    /\ a_running
    /\ a_ret.call = "start"

\* C28: execute_tool of an unregistered name raises ValueError and invokes
\* nothing; of a registered name it invokes the callable registered last
\* under that name and returns its result; the registry is left unchanged.
C28_ExecuteTool ==
    [][/\ \A name \in AgentToolNames, func \in AgentFuncs :
            Agent_register_tool(name, func) => DictGet(a_tools', name) = func
       /\ \A name \in AgentToolNames :
            execute_tool(name) =>
                /\ a_tools' = a_tools
                /\ IF DictHas(a_tools, name)
                   THEN /\ a_ret'.invoked = DictGet(a_tools, name)
                        /\ a_ret'.result = ResultOf(DictGet(a_tools, name))
                   ELSE /\ a_ret'.invoked = "None"
                        /\ a_ret'.result = "ValueError"]_vars

\* a registered tool was executed and its result returned
C28_Witness ==
    /\ a_ret.call = "execute_tool"
    /\ DictHas(a_tools, a_ret.name)
    /\ a_ret.invoked = "g"
    /\ a_ret.result = ResultOf("g")

-----------------------------------------------------------------------------
(* LLMManager (dino_os/llm_provider.py) *)

\* length of provider_configs
MaxProviders == 3

PROVIDER_CLASSES == { "openrouter", "anthropic", "minimax", "ollama", "vl" }

\* the provider types given in a configuration: two registered, one not
ProviderTypes == { "openrouter", "ollama", "plugin" }

ProviderConfigs ==
    SeqsUpTo([provider : ProviderTypes, enabled : BOOLEAN], MaxProviders)

\* provider.generate either returns a response or raises
ProviderOutcomes == { "ok", "raise" }

NotLlm == << schedVars, cron_in, matchVars, busVars, boxVars, fileVars, agentVars >>

\* __init__ taking every entry of a registered type, enabled or not
Providers_IgnoreEnabled(configs) ==
    LET RECURSIVE From(_)
        From(n) ==
            IF n > Len(configs) THEN << >>
            ELSE IF configs[n].provider \in PROVIDER_CLASSES
                 THEN << n >> \o From(n + 1)
                 ELSE From(n + 1)
    IN  From(1)

\* __init__: the providers built, each named by the position of its entry
Providers(configs) ==
    LET RECURSIVE From(_)
        From(n) ==
            IF n > Len(configs) THEN << >>
            ELSE IF ~configs[n].enabled THEN From(n + 1)
            ELSE IF configs[n].provider \in PROVIDER_CLASSES
                 THEN << n >> \o From(n + 1)
                 ELSE From(n + 1)
    IN  From(1)

RECURSIVE GenerateLoop(_, _, _, _, _)
\* the for loop of generate from provider number n on, and what follows it
GenerateLoop(ps, outs, n, calls, last_error) ==
    IF n > Len(ps)
    THEN [called |-> TRUE,
          result |-> IF last_error THEN "RuntimeError" ELSE "None",
          from |-> 0, calls |-> calls, outs |-> outs]
    ELSE IF outs[ps[n]] = "ok"
         THEN [called |-> TRUE, result |-> "response", from |-> ps[n],
               calls |-> Append(calls, ps[n]), outs |-> outs]
         ELSE GenerateLoop(ps, outs, n + 1, Append(calls, ps[n]), TRUE)

generate(outs) ==
    /\ llm_ret' = GenerateLoop(providers, outs, 1, << >>, FALSE)
    /\ UNCHANGED << llm_configs, providers, NotLlm >>

InitLlm ==
    /\ clock = Min(StartTimes)
    /\ objs = << >>
    /\ jobs = << >>
    /\ running = FALSE
    /\ task = NoTask
    /\ runs = << >>
    /\ ticks = 0
    /\ ret = "None"
    /\ ncalls = 0
    /\ cron_in = << >>
    /\ topic_in = << >>
    /\ pattern_in = << >>
    /\ delivered = Undelivered
    /\ BusInit
    /\ BoxInit
    /\ FileInit
    /\ AgentInit
    /\ llm_configs \in ProviderConfigs
    /\ providers = Providers(llm_configs)
    /\ llm_ret = NoLlmRet

NextLlm == \E outs \in [1..MaxProviders -> ProviderOutcomes] : generate(outs)

SpecLlm == InitLlm /\ [][NextLlm]_vars

-----------------------------------------------------------------------------
(* Claims about LLMManager.generate *)

\* entry n of provider_configs is enabled and of a registered type
Configured(n) ==
    /\ llm_configs[n].enabled
    /\ llm_configs[n].provider \in PROVIDER_CLASSES

ConfiguredSet == { n \in 1..Len(llm_configs) : Configured(n) }

\* the providers called are the configured ones in priority order, from the
\* first one on with none left out
CalledInOrder(calls) ==
    /\ \A k \in 1..Len(calls) : calls[k] \in ConfiguredSet
    /\ \A k \in 1..(Len(calls) - 1) : calls[k] < calls[k + 1]
    /\ \A n \in ConfiguredSet :
          (Len(calls) > 0 /\ n < calls[Len(calls)]) => \E k \in 1..Len(calls) : calls[k] = n

-----------------------------------------------------------------------------
(* The scheduler with two jobs in its table *)

\* the jobs registered before the run observed: an interval job of one
\* second, or a one-shot job whose run-at time has passed
TableKinds == { "interval", "once" }

\* the ScheduledJob made by add_interval_job(id, 1, func) or by
\* add_one_shot_job(id, now - 1, func) called at time now
TableJob(id, kind, func, now) ==
    IF kind = "interval"
    THEN [id |-> id, schedule_type |-> "interval", schedule |-> Str(1),
          func |-> func, next_run |-> now, enabled |-> TRUE, early |-> TRUE]
    ELSE [id |-> id, schedule_type |-> "once", schedule |-> IsoFormat(now - 1),
          func |-> func, next_run |-> now - 1, enabled |-> TRUE, early |-> TRUE]

\* the scheduler after "j1" and then "j2" were registered at the first
\* instant, the loop not yet started; ncalls counts the calls made from
\* here on
InitTick ==
    /\ clock = Min(StartTimes)
    /\ \E k1 \in TableKinds, k2 \in TableKinds, f1 \in Funcs, f2 \in Funcs :
          objs = << TableJob("j1", k1, f1, clock), TableJob("j2", k2, f2, clock) >>
    /\ jobs = DictSet(DictSet(<< >>, "j1", 1), "j2", 2)
    /\ running = FALSE
    /\ task = NoTask
    /\ runs = << 0, 0 >>
    /\ ticks = 0
    /\ ret = "None"
    /\ ncalls = 0
    /\ cron_in = << >>
    /\ topic_in = << >>
    /\ pattern_in = << >>
    /\ delivered = Undelivered
    /\ BusInit
    /\ BoxInit
    /\ RestInit

SpecTick == InitTick /\ [][Next]_vars

-----------------------------------------------------------------------------
(* Claims about the job table during a tick *)

\* the ids of job table d, in its order
Keys(d) == [n \in 1..Len(d) |-> d[n].k]

\* position of id k in job table d
KeyPos(d, k) == CHOOSE n \in 1..Len(d) : d[n].k = k

\* the loop begins a tick in this step
TickBegins ==
    /\ task.pc \in { "ready", "sleep" }
    /\ task'.pc \in { "call", "sleep" }
    /\ task' # task

\* the loop goes on after the func of the current job in this step
TickGoesOn ==
    /\ task.pc = "call"
    /\ task'.pc \in { "call", "sleep" }
    /\ task' # task

\* C31: a tick works through the job table as it was when the tick began,
\* from its first entry to its last, whatever the next-due times and the
\* kinds of the jobs; the table holds the ids in the order of their first
\* insertion: registering an id already present keeps its position, a new
\* id goes last, and a removal leaves the order of the others.
C31_FiringOrder ==
    [][ /\ TickBegins
            => /\ task'.items = jobs
               /\ \A k \in 1..Len(jobs) :
                     k < task'.i => ~Eligible(objs[jobs[k].v], task'.now)
        /\ TickGoesOn
            => /\ task'.items = task.items
               /\ task'.i > task.i
               /\ \A k \in 1..Len(task.items) :
                     (task.i < k /\ k < task'.i)
                        => ~Eligible(objs'[task.items[k].v], task.now)
        /\ \A a, b \in 1..Len(jobs') :
              a < b
                 => /\ DictHas(jobs, jobs'[b].k)
                          => /\ DictHas(jobs, jobs'[a].k)
                             /\ KeyPos(jobs, jobs'[a].k) < KeyPos(jobs, jobs'[b].k)
        /\ (Len(objs') > Len(objs) /\ DictHas(jobs, objs'[Len(objs')].id))
              => Keys(jobs') = Keys(jobs) ]_vars

\* in one tick the job registered first was invoked before the job
\* registered second, whose next-due is the earlier one and whose kind is
\* another
C31_Witness ==
    /\ task.pc = "call"
    /\ Len(task.items) = 2
    /\ task.i = 2
    /\ task.hits[1] = 1
    /\ objs[task.items[2].v].next_run < objs[task.items[1].v].next_run
    /\ objs[task.items[2].v].schedule_type # objs[task.items[1].v].schedule_type

\* C32: the next-due of a job object changes only in the step in which the
\* loop goes on after having invoked that very job; public calls, steps of
\* the clock and ticks that do not fire the job leave it unchanged.
C32_NextDueFrame ==
    [][ \A r \in 1..Len(objs) :
          objs'[r].next_run # objs[r].next_run
             => /\ task.pc = "call"
                /\ task.items[task.i].v = r
                /\ task' # task
                /\ ncalls' = ncalls ]_vars

\* a tick is over that fired a registered interval job, whose next-due has
\* changed, and left alone another registered job that was not due
C32_Witness ==
    /\ task.pc = "sleep"
    /\ \E r, q \in 1..Len(objs) :
          /\ InTable(jobs, r) /\ InTable(jobs, q)
          /\ objs[r].schedule_type = "interval"
          /\ runs[r] = 1
          /\ objs[r].next_run = TruncSecond(task.now)
          /\ task.now # TruncSecond(task.now)
          /\ runs[q] = 0
          /\ objs[q].next_run > task.now

\* C36: the func of a job is invoked only while the id of the job is in the
\* job table: once remove_job(id) has returned true, and until the id is
\* registered again, it is not invoked.
C36_RemovalEffective ==
    [][ \A r \in 1..Len(runs) :
          runs'[r] > runs[r] => DictHas(jobs, objs[r].id) ]_vars

\* C37: when the func of a job returns while its id is registered with
\* another job object, that object stays in the job table under the id with
\* the next-due it was given, whatever the kind of the job that returned.
C37_ReRegistrationSurvives ==
    [][ ( /\ task.pc = "call"
          /\ task' # task
          /\ ncalls' = ncalls
          /\ DictHas(jobs, task.items[task.i].k)
          /\ DictGet(jobs, task.items[task.i].k) # task.items[task.i].v )
           => LET id == task.items[task.i].k
                  new == DictGet(jobs, id)
              IN  /\ DictHas(jobs', id)
                  /\ DictGet(jobs', id) = new
                  /\ objs'[new].next_run = objs[new].next_run ]_vars

-----------------------------------------------------------------------------
(* Claims about the Agent state machine *)

\* C35: in every reachable state the running flag of the agent is true iff
\* a background task launched by start is live.
C35_RunningIffLive == a_running <=> LiveTasks # { }

-----------------------------------------------------------------------------
(* Claims about the two sandboxes *)

\* C34: with the same workspace root and both restrictions enabled,
\* ToolSandbox._is_path_safe gives true exactly for the paths that
\* FileSandbox._check_path accepts.
C34_OneConfinementPredicate ==
    (tool_ret.kind = "bool" /\ restrict_to_workspace /\ restrict_enabled)
       => (tool_ret.success <=> _check_path(fs_in) = "ok")

-----------------------------------------------------------------------------
(* Claims about the history, the queue and the dispatch of the bus *)

\* message m is in sequence l
HasMessage(l, m) == \E n \in 1..Len(l) : l[n] = m

\* C33: a message is appended to the history in the step that ends its
\* dispatch, when every callback of the dispatch has been invoked and none
\* is pending; no message of the history is in the queue or in dispatch.
C33_HistoryAfterDispatch ==
    /\ [][ history' # history
             => LET m == history'[Len(history')]
                    cbs == IF bus.pc = "await" THEN bus.callbacks
                           ELSE Callbacks(subs, m.topic)
                IN  /\ m = IF bus.pc = "await" THEN bus.msg ELSE Head(queue)
                    /\ bus'.pc = "get"
                    /\ \A n \in 1..Len(cbs) :
                          CountIn(Invoked(log', m.id), cbs[n]) > 0 ]_vars
    /\ [](\A k \in 1..Len(history) :
            /\ ~HasMessage(queue, history[k])
            /\ ~(bus.pc = "await" /\ bus.msg = history[k]))

\* a message is in the history whose dispatch went to a coroutine callback
\* and then to another callback
C33_Witness ==
    /\ history # << >>
    /\ \E i \in 1..Len(log) :
          /\ i < Len(log)
          /\ log[i] = [m |-> history[1].id, cb |-> Callback("slow")]
          /\ log[i + 1].m = history[1].id

\* C39: every message created is at every moment in the queue, in dispatch
\* (to be delivered to the rest of its callbacks and recorded), or has been
\* dispatched to the end and recorded in the history.
C39_NoLossOnStop ==
    \A id \in 1..nmsg :
        \/ \E n \in 1..Len(queue) : queue[n].id = id
        \/ bus.pc = "await" /\ bus.msg.id = id
        \/ \E n \in 1..Len(dispatched) : dispatched[n] = id

\* C38: a message created is put on the queue, whether the loop is running
\* or not; a message leaves the queue only from its head, taken by the
\* running loop for dispatch; the queue holds the messages in publish order,
\* all of them published after every message taken for dispatch so far.
C38_QueuedWhileStopped ==
    /\ [][ /\ \A id \in (nmsg + 1)..nmsg' :
                \E n \in 1..Len(queue') : queue'[n].id = id
           /\ \A n \in 1..Len(queue) :
                \/ HasMessage(queue', queue[n])
                \/ /\ n = 1
                   /\ bus.running /\ bus.pc = "get"
                   /\ \/ bus'.pc = "await" /\ bus'.msg = queue[1]
                      \/ dispatched' = Append(dispatched, queue[1].id) ]_vars
    /\ [](/\ \A n \in 1..(Len(queue) - 1) : queue[n].id < queue[n + 1].id
          /\ \A n \in 1..Len(queue), k \in 1..Len(log) : log[k].m < queue[n].id)

\* the loop has dispatched a message and is stopped, and two messages are
\* held in the queue
C38_Witness ==
    /\ ~bus.running
    /\ dispatched = << 1 >>
    /\ Len(queue) = 2

-----------------------------------------------------------------------------
(* MessageBus: subscriptions changing while a message is dispatched *)

unsubscribe(topic, callback) ==
    /\ subs' = Unsubscribe(subs, topic, callback)
    /\ regs' = Remove(regs, [topic |-> topic, cb |-> callback])
    /\ UNCHANGED << hist_ret, queue, history, bus, log, dispatched, futs, req, nmsg,
                    NotBus >>

\* the callbacks subscribed and unsubscribed, and the messages published
SnapCallbacks == { Callback("bad"), Callback("slow") }
SnapTopic == << "a", ".", "b" >>

NextSnap ==
    \/ \E topic \in BusTopics, callback \in SnapCallbacks : subscribe(topic, callback)
    \/ \E topic \in BusTopics, callback \in SnapCallbacks : unsubscribe(topic, callback)
    \/ publish(SnapTopic, "LOW", NoCid)
    \/ bus_start
    \/ Get
    \/ CallbackReturns

SpecSnap == InitBus /\ [][NextSnap]_vars

\* the invocations of callbacks cbs from position i to position j with
\* message m, as entries of the log
Invocations(m, cbs, i, j) ==
    [n \in 1..(j - i + 1) |-> [m |-> m.id, cb |-> cbs[i + n - 1]]]

\* C40: the callbacks invoked for a message are those of the list built
\* when its dispatch begins, each in its turn; while a coroutine callback of
\* the dispatch is suspended, a subscribe or unsubscribe changes neither the
\* list nor the invocations that follow for the message.
C40_DispatchSnapshot ==
    [][ /\ (bus.pc = "await" /\ bus'.pc = "await" /\ bus'.msg = bus.msg)
            => bus'.callbacks = bus.callbacks
        /\ (bus.pc = "await" /\ bus' # bus)
            => LET top == IF bus'.pc = "await" THEN bus'.i ELSE Len(bus.callbacks)
               IN  /\ bus'.pc = "await" => bus'.msg = bus.msg
                   /\ log' = log \o Invocations(bus.msg, bus.callbacks, bus.i + 1, top)
        /\ (bus.pc = "get" /\ (bus'.pc = "await" \/ dispatched' # dispatched))
            => LET cbs == Callbacks(subs, Head(queue).topic)
                   top == IF bus'.pc = "await" THEN bus'.i ELSE Len(cbs)
               IN  /\ bus'.pc = "await" => bus'.callbacks = cbs
                   /\ log' = log \o Invocations(Head(queue), cbs, 1, top) ]_vars

\* the second of two coroutine callbacks of a message is being awaited
\* although a subscription was removed after the dispatch began
C40_Witness ==
    /\ bus.pc = "await"
    /\ bus.i = 2
    /\ Len(Callbacks(subs, bus.msg.topic)) < Len(bus.callbacks)

====
